---- MODULE Spec2Model ----
(***************************************************************************)
(* A model of mwa_hyperbeam's foreign-function boundary for the FEE beam   *)
(* (src/src/fee/ffi/mod.rs) and of the GPU engine it builds and drives.    *)
(*                                                                         *)
(* The boundary functions are modelled from their code.  What they call   *)
(* into (FEEBeam::gpu_prepare, the Jones-matrix capability, the           *)
(* last-error slot, the ffi_error! macro) is not part of the files at     *)
(* hand; it is modelled from the specification and from what the tests    *)
(* in src/src/fee/cuda/tests.rs observe of it.                            *)
(*                                                                         *)
(* Floating-point values are not computed.  An amplitude is an integer in *)
(* units of 1.0, an angle an integer in units of 1e-4 rad, and a Jones    *)
(* matrix entry is a term that records what it was computed from.         *)
(***************************************************************************)
EXTENDS Integers, Sequences, FiniteSets, TLC

VARIABLES
    mem,         \* the caller's buffers, fixed for one run of the caller
    fee_beams,   \* heap of FEEBeam: handle -> "none" | "live" | "freed"
    gpu_beams,   \* heap of FEEBeamGpu: handle -> NoBeam | FreedBeam | record
    last_error,  \* the last-error slot of crate::ffi
    hook,        \* the process-wide panic hook
    call,        \* what the most recent boundary call did and returned
    process,     \* "running" | "terminated" | "undefined"
    threads      \* where each thread is inside a creation call it is making

vars == <<mem, fee_beams, gpu_beams, last_error, hook, call, process, threads>>

-----------------------------------------------------------------------------
(* Bounds of the model.                                                    *)

\* Longest tile table and frequency list enumerated by InitDedup.
MaxTiles == 2
MaxFreqs == 2

-----------------------------------------------------------------------------
(* Generic helpers.                                                        *)

Range(s) == {s[i] : i \in 1..Len(s)}

RECURSIVE SeqsUpTo(_, _)
\* All sequences over S of length at most n.
SeqsUpTo(S, n) ==
    IF n = 0 THEN {<<>>}
    ELSE LET shorter == SeqsUpTo(S, n - 1)
         IN  shorter \cup {Append(s, x) : s \in {t \in shorter : Len(t) = n - 1}, x \in S}

RECURSIVE Flatten(_)
\* The row-major flat buffer of a table given as a sequence of rows.
Flatten(rows) ==
    IF rows = <<>> THEN <<>> ELSE Head(rows) \o Flatten(Tail(rows))

\* 0-based position of the first element of s equal to x (x is in s).
Position(s, x) == (CHOOSE i \in 1..Len(s) : s[i] = x /\ \A j \in 1..(i - 1) : s[j] # x) - 1

-----------------------------------------------------------------------------
(* The caller's data: the dipole delays, dipole gains, frequencies and    *)
(* directions the tests use.                                              *)

Delays0  == <<3, 2, 1, 0, 3, 2, 1, 0, 3, 2, 1, 0, 3, 2, 1, 0>>
Delays32 == <<32, 2, 1, 0, 3, 2, 1, 0, 3, 2, 1, 0, 3, 2, 1, 0>>
AmpsOne  == <<1, 1, 1, 1, 1, 1, 1, 1, 1, 1, 1, 1, 1, 1, 1, 1>>
AmpsDead == <<0, 1, 1, 1, 1, 1, 1, 1, 1, 1, 1, 1, 1, 1, 1, 1>>
AmpsZero == <<0, 0, 0, 0, 0, 0, 0, 0, 0, 0, 0, 0, 0, 0, 0, 0>>

TileA == [delays |-> Delays0,  amps |-> AmpsOne]
TileB == [delays |-> Delays32, amps |-> AmpsOne]
TileC == [delays |-> Delays0,  amps |-> AmpsDead]
TileZ == [delays |-> Delays0,  amps |-> AmpsZero]
\* Rows with 32 gains: 16 for the X elements, then 16 for the Y elements.
TileXY  == [delays |-> Delays0, amps |-> AmpsOne \o AmpsOne]
TileXY0 == [delays |-> Delays0, amps |-> AmpsOne \o AmpsDead]

Tiles16 == {TileA, TileB, TileC, TileZ}

\* The table of test_cuda_calc_jones_deduplication: rows 0 and 3 are the same.
TestTiles == <<TileA, TileB, TileC, TileA>>
\* A table whose rows 0, 2 and 3 are the same and whose row 1 differs from
\* them in one delay only (32 in place of 3).
SharedTiles == <<TileA, TileB, TileA, TileA>>
\* The table of test_cuda_calc_jones_no_amps.
NoAmpsTiles == <<TileA, TileZ>>

FreqValues == {150000000, 200000000, 250000000, 250000001}
\* The frequency list of test_cuda_calc_jones_deduplication.
TestFreqs == <<150000000, 200000000, 250000000, 150000000, 200000000, 250000001>>

\* Directions (az, za) in units of 1e-4 rad: the first two of the tests.
TestAz == <<4500, 4501>>
TestZa == <<4500, 4501>>

NullPtr == "null"
MWA_LAT_RAD == "MWA_LAT_RAD"

-----------------------------------------------------------------------------
(* The coefficient store and the Jones-matrix capability (external        *)
(* collaborators, spec sections 2 and 6).                                 *)

\* The frequencies available in the coefficient file: a 1.28 MHz grid from
\* 49.92 MHz to 327.68 MHz.
StoreFreqs == {k * 1280000 : k \in 39..256}

AbsDiff(a, b) == IF a >= b THEN a - b ELSE b - a

\* closestFrequency(Store, target): the available frequency nearest to the
\* target, the lower one when two are equally near.
ClosestTable ==
    [f \in FreqValues |->
        CHOOSE c \in StoreFreqs :
            \A o \in StoreFreqs :
                \/ AbsDiff(f, c) < AbsDiff(f, o)
                \/ AbsDiff(f, c) = AbsDiff(f, o) /\ c <= o]

find_closest_freq(freq_hz) == ClosestTable[freq_hz]

\* prepareCoefficients(tileConfig, frequency): the coefficient block of one
\* tile configuration at one available frequency.
get_modes(fee_freq, delays, amps) ==
    [freq |-> fee_freq, delays |-> delays, amps |-> amps]

\* A Jones matrix is held as what it was computed from (src: the
\* coefficient block, the direction, whether it was normalised, the latitude
\* it was rotated for) and, for each of its four positions, which entry of
\* that matrix the position holds: 1..4, or 0 for an entry that is zero.
NoSrc == [zero |-> TRUE]
ZeroJones == [src |-> NoSrc, e |-> <<0, 0, 0, 0>>]
Jones(src, e) == IF e = <<0, 0, 0, 0>> THEN ZeroJones ELSE [src |-> src, e |-> e]

\* The value at position k (1..4) of a Jones matrix.
Zero == <<NoSrc, 0>>
Entry(j, k) == IF j.e[k] = 0 THEN Zero ELSE <<j.src, j.e[k]>>

\* The gains of the X elements and of the Y elements of a row of 16 or 32.
XAmps(amps) == SubSeq(amps, 1, 16)
YAmps(amps) == IF Len(amps) = 32 THEN SubSeq(amps, 17, 32) ELSE amps

AllZero(gains) == \A i \in 1..Len(gains) : gains[i] = 0

\* evaluate(CoefficientBlock, direction): entries 1 and 2 are the response of
\* the X elements, entries 3 and 4 of the Y elements; a polarisation whose
\* gains are all zero responds with zero.
calc_jones_direct(coeffs, az, za) ==
    Jones([coeffs |-> coeffs, az |-> az, za |-> za, norm |-> FALSE, lat |-> NullPtr],
          [k \in 1..4 |->
              IF AllZero(IF k <= 2 THEN XAmps(coeffs.amps) ELSE YAmps(coeffs.amps))
              THEN 0 ELSE k])

\* Normalisation: every entry is scaled by the zenith response of its tile
\* and frequency.
apply_norm(j) ==
    IF j = ZeroJones THEN j ELSE [j EXCEPT !.src.norm = TRUE]

\* Parallactic-angle correction: each row of the matrix is rotated by the
\* angle that the direction and the latitude imply, which mixes the two
\* entries of the row.
apply_parallactic(j, latitude_rad) ==
    IF j = ZeroJones THEN j
    ELSE [src |-> [j.src EXCEPT !.lat = latitude_rad],
          e |-> [k \in 1..4 |->
                    IF (IF k <= 2 THEN j.e[1] = 0 /\ j.e[2] = 0 ELSE j.e[3] = 0 /\ j.e[4] = 0)
                    THEN 0 ELSE k]]

\* IAU order: entry 0 is swapped with entry 3 and entry 1 with entry 2.
apply_iau_order(j) == [j EXCEPT !.e = <<j.e[4], j.e[3], j.e[2], j.e[1]>>]

\* PostProcessing (spec section 4.4), the same on both engines.
post_process(j, norm_to_zenith, latitude_rad, iau_order) ==
    LET normed == IF norm_to_zenith THEN apply_norm(j) ELSE j
        turned == IF latitude_rad # NullPtr
                  THEN apply_parallactic(normed, latitude_rad)
                  ELSE normed
    IN  IF iau_order THEN apply_iau_order(turned) ELSE turned

-----------------------------------------------------------------------------
(* DedupMapper (spec section 4.1).                                        *)

RECURSIVE DedupScan(_, _, _)
\* Scan the values in order; a value seen for the first time gets the next
\* unique index and is appended to unique, a repeated value reuses its index.
DedupScan(configs, unique, map) ==
    IF configs = <<>> THEN [unique |-> unique, map |-> map]
    ELSE LET c == Head(configs)
         IN  IF c \in Range(unique)
             THEN DedupScan(Tail(configs), unique, Append(map, Position(unique, c)))
             ELSE DedupScan(Tail(configs), Append(unique, c), Append(map, Len(unique)))

\* A faulty variant of dedup: the values are scanned from the last to the
\* first, so the unique indices follow the order of the last occurrences.
dedup_from_the_end(configs) ==
    LET n == Len(configs)
        r == DedupScan([i \in 1..n |-> configs[n + 1 - i]], <<>>, <<>>)
    IN  [unique |-> r.unique, map |-> [i \in 1..n |-> r.map[n + 1 - i]]]

dedup(configs) == DedupScan(configs, <<>>, <<>>)

\* Tiles are compared by their delays and gains.
dedup_tiles(delays_array, amps_array) ==
    dedup([i \in 1..Len(delays_array) |->
              [delays |-> delays_array[i], amps |-> amps_array[i]]])

\* Frequencies are compared by the available frequency each one selects:
\* test_cuda_calc_jones_deduplication counts 3 unique frequencies among
\* 150e6, 200e6, 250e6, 150e6, 200e6 and 250000001.
dedup_freqs(freqs_hz) ==
    dedup([i \in 1..Len(freqs_hz) |-> find_closest_freq(freqs_hz[i])])

-----------------------------------------------------------------------------
(* GpuBatchEngine (spec section 4.2).                                     *)

RECURSIVE CoeffScanEveryPair(_, _, _, _, _, _)
\* A faulty variant of CoeffScan: a coefficient block is prepared for every
\* (tile, frequency) pair of the input, repeated or not.
CoeffScanEveryPair(k, tiles, freqs, seen, coeffs, n_freqs) ==
    IF k > Len(tiles.map) * n_freqs THEN coeffs
    ELSE LET i == ((k - 1) \div n_freqs) + 1
             j == ((k - 1) % n_freqs) + 1
             t == tiles.unique[tiles.map[i] + 1]
         IN  CoeffScanEveryPair(k + 1, tiles, freqs, seen,
                                Append(coeffs,
                                       get_modes(freqs.unique[freqs.map[j] + 1],
                                                 t.delays, t.amps)),
                                n_freqs)

RECURSIVE CoeffScan(_, _, _, _, _, _)
\* Go through the (tile, frequency) pairs of the caller's input in order and
\* prepare one coefficient block for each unique pair not prepared yet.
CoeffScan(k, tiles, freqs, seen, coeffs, n_freqs) ==
    IF k > Len(tiles.map) * n_freqs THEN coeffs
    ELSE LET i == ((k - 1) \div n_freqs) + 1
             j == ((k - 1) % n_freqs) + 1
             pair == <<tiles.map[i], freqs.map[j]>>
             t == tiles.unique[tiles.map[i] + 1]
         IN  IF pair \in seen
             THEN CoeffScan(k + 1, tiles, freqs, seen, coeffs, n_freqs)
             ELSE CoeffScan(k + 1, tiles, freqs, seen \cup {pair},
                            Append(coeffs,
                                   get_modes(freqs.unique[freqs.map[j] + 1], t.delays, t.amps)),
                            n_freqs)

\* FEEBeam::gpu_prepare (cuda_prepare in the tests): the engine built from a
\* frequency list, a table of delays, a table of gains and the
\* normalisation flag.
gpu_prepare(freqs_hz, delays_array, amps_array, norm_to_zenith) ==
    LET tiles == dedup_tiles(delays_array, amps_array)
        freqs == dedup_freqs(freqs_hz)
        coeffs == CoeffScan(1, tiles, freqs, {}, <<>>, Len(freqs_hz))
    IN  [num_coeffs       |-> Len(coeffs),
         num_unique_tiles |-> Len(tiles.unique),
         num_unique_freqs |-> Len(freqs.unique),
         tile_map         |-> tiles.map,
         freq_map         |-> freqs.map,
         d_coeffs         |-> coeffs,
         norm_to_zenith   |-> norm_to_zenith]

\* The batched device computation: one Jones matrix per coefficient block
\* and direction, laid out [unique tile][unique frequency][direction] (the
\* coefficient blocks are in [unique tile][unique frequency] order).
gpu_calc_jones(beam, az, za, latitude_rad, iau_order) ==
    [x \in 1..(beam.num_coeffs * Len(az)) |->
        LET c == beam.d_coeffs[((x - 1) \div Len(az)) + 1]
            d == ((x - 1) % Len(az)) + 1
        IN  post_process(calc_jones_direct(c, az[d], za[d]),
                         beam.norm_to_zenith, latitude_rad, iau_order)]

-----------------------------------------------------------------------------
(* CpuParallelEngine (spec section 4.3).                                  *)

\* FEEBeam::calc_jones_pair: the beam response in one direction.
calc_jones_pair(az, za, freq_hz, delays, amps, norm_to_zenith, latitude_rad, iau_order) ==
    LET coeffs == get_modes(find_closest_freq(freq_hz), delays, amps)
    IN  post_process(calc_jones_direct(coeffs, az, za),
                     norm_to_zenith, latitude_rad, iau_order)

\* FEEBeam::calc_jones_array_pair: one result per direction, in the order
\* of the directions.
calc_jones_array_pair(az, za, freq_hz, delays, amps, norm_to_zenith, latitude_rad, iau_order) ==
    [d \in 1..Len(az) |->
        calc_jones_pair(az[d], za[d], freq_hz, delays, amps,
                        norm_to_zenith, latitude_rad, iau_order)]

\* The orders in which the tasks of the parallel workers, one task per
\* direction, can finish: every order of the n directions, whatever the
\* number of workers.
Schedules(n) == {s \in [1..n -> 1..n] : \A i, j \in 1..n : i # j => s[i] # s[j]}

\* What a slot of the caller's output buffer holds until it is written.
Stale == [src |-> [stale |-> TRUE], e |-> <<0, 0, 0, 0>>]
StaleBuffer(n) == [i \in 1..n |-> Stale]

\* A faulty variant of write_slots: each finished task appends its result
\* to the output, so the results are in the order the tasks finished.
write_in_finishing_order(results, computed, schedule, n) ==
    [k \in 1..Len(results) |-> IF k <= n THEN computed[schedule[k]] ELSE results[k]]

\* Output assembly of FEEBeam::calc_jones_array_pair_inner: the first n
\* tasks to finish have each written the result of their direction into
\* the slot of that direction.
RECURSIVE write_slots(_, _, _, _)
write_slots(results, computed, schedule, n) ==
    IF n = 0 THEN results
    ELSE [write_slots(results, computed, schedule, n - 1)
              EXCEPT ![schedule[n]] = computed[schedule[n]]]

\* FEEBeam::calc_jones_array_pair_inner: the directions are worked on in
\* parallel and their results written into the given slice; n = Len(az)
\* when every task succeeds, and fewer when one of them fails.
calc_jones_array_pair_inner(az, za, freq_hz, delays, amps, norm_to_zenith, latitude_rad, iau_order, results, schedule, n) ==
    write_slots(results,
                calc_jones_array_pair(az, za, freq_hz, delays, amps, norm_to_zenith,
                                      latitude_rad, iau_order),
                schedule, n)

-----------------------------------------------------------------------------
(* The boundary's view of the caller's memory.                            *)

\* slice::from_raw_parts(ptr, len): the first len elements at ptr.
slice_from_raw_parts(buf, len) == SubSeq(buf, 1, len)

\* A faulty variant of ArrayView2_from_shape_ptr: the row offset is left
\* out, so every row of the view is the first row of the buffer.
ArrayView2FirstRowOnly(rows, cols, buf) ==
    [i \in 1..rows |-> SubSeq(buf, 1, cols)]

\* A faulty variant of ArrayView2_from_shape_ptr: the buffer is read in
\* column-major order.
ArrayView2ColumnMajor(rows, cols, buf) ==
    [i \in 1..rows |-> [c \in 1..cols |-> buf[(c - 1) * rows + i]]]

\* ArrayView2::from_shape_ptr((rows, cols), ptr): row i of a row-major
\* buffer is its elements i * cols .. i * cols + cols - 1.
ArrayView2_from_shape_ptr(rows, cols, buf) ==
    [i \in 1..rows |-> SubSeq(buf, (i - 1) * cols + 1, i * cols)]

\* ArrayViewMut3::from_shape_ptr((n0, n1, n2), ptr): element [i0, i1, i2]
\* (0-based) is at position (i0 * n1 + i1) * n2 + i2 of the buffer.
Index3(n1, n2, i0, i1, i2) == (i0 * n1 + i1) * n2 + i2 + 1

\* What the caller holds in memory: a frequency list, a table of delays and
\* a table of gains (row-major), directions, and the counts that go with
\* them.
Mem(freqs, tiles, num_amps) ==
    [freqs_hz  |-> freqs,
     num_freqs |-> Len(freqs),
     delays    |-> Flatten([i \in 1..Len(tiles) |-> tiles[i].delays]),
     amps      |-> Flatten([i \in 1..Len(tiles) |-> tiles[i].amps]),
     num_tiles |-> Len(tiles),
     num_amps  |-> num_amps,
     az_rad    |-> TestAz,
     za_rad    |-> TestZa,
     num_azza  |-> Len(TestAz)]

\* The rows of the caller's tables, as the documentation of new_gpu_fee_beam
\* lays them out.
MemDelays(t) == SubSeq(mem.delays, (t - 1) * 16 + 1, t * 16)
MemAmps(t) == SubSeq(mem.amps, (t - 1) * mem.num_amps + 1, t * mem.num_amps)
MemTile(t) == [delays |-> MemDelays(t), amps |-> MemAmps(t)]

-----------------------------------------------------------------------------
(* The state of the boundary.                                             *)

CpuHandles == {"b1"}
GpuHandles == {"g1"}

NoBeam    == [status |-> "none"]
FreedBeam == [status |-> "freed"]
\* A faulty variant of LiveBeam: the box is dropped before its pointer is
\* handed out, so the handle names an engine that is already freed.
LiveBeamDropped(beam) == FreedBeam
LiveBeam(beam) == [status |-> "live", beam |-> beam]

Live(h) == gpu_beams[h].status = "live"

NoMsg == "(none)"
DefaultHook == "default"
HostHook == "host"
PanicHook == "update_last_error"

\* Events of one boundary call, in program order.
Check(what) == [op |-> "check", what |-> what]
Deref(what) == [op |-> "deref", what |-> what]
Write(what) == [op |-> "write", what |-> what]
Engine(what) == [op |-> "engine", what |-> what]

NoOut == <<>>
NoFlags == [num_amps |-> 16, norm_to_zenith |-> 0, iau_order |-> 0]

\* The record of one boundary call: the function, the handle and flags it
\* was given, the status it returned (value: what an accessor returned), its
\* events, the message it put in the last-error slot, what it wrote to the
\* output buffer and the handle it wrote to the output pointer.
CallRec(fn, handle, flags, latitude_rad, ret, trace, err, out, out_handle, value) ==
    [fn |-> fn, handle |-> handle, flags |-> flags, latitude_rad |-> latitude_rad,
     ret |-> ret, trace |-> trace, err |-> err, out |-> out,
     out_handle |-> out_handle, value |-> value]

NoCall == CallRec("none", "none", NoFlags, NullPtr, 0, <<>>, NoMsg, NoOut, "none", <<>>)

\* A faulty variant of update_last_error: the message is not stored.
update_last_error_dropped(err) == last_error

\* update_last_error(msg) of crate::ffi, for the message a call ends with.
update_last_error(err) == IF err = NoMsg THEN last_error ELSE err

BadNumAmps == "A value other than 16 or 32 was used for num_amps"
BadNorm == "A value other than 0 or 1 was used for norm_to_zenith"
BadIau == "A value other than 0 or 1 was used for iau_order"
EngineError == "engine error"
BadUtf8 == "invalid utf-8 sequence"
PanicMessage == "panic message"

\* Values a caller may put in an integer flag.
FlagValues == {0, 1, 2}
\* Counts of gains a caller may pass: the one of its table, or another.
NumAmpsValues == {mem.num_amps, 8}
LatitudeValues == {NullPtr, MWA_LAT_RAD}
\* What the engine answers to a call: a result or an error.
Outcomes == {"ok", "err"}

\* The direction counts given to fee_calc_jones_gpu_device, a signed
\* 32-bit number: the length of the caller's direction arrays, or -1.
DeviceNumAzzaValues == {mem.num_azza, -1}

\* What the device memory of a freed allocation holds when it is read: not
\* a null pointer, and not a value the caller gave.
FreedDeviceMemory == "freed device memory"

\* What the engine can do inside a call that does not catch a panic: return
\* Ok, return Err, or panic.
PanicOutcomes == {"ok", "err", "panic"}

\* What can happen inside fee_calc_jones_gpu_device: besides the outcomes of
\* the engine, each of the copies to the device can fail; the latitude is
\* copied only when the caller gave one.
DeviceOutcomes(latitude_rad) ==
    PanicOutcomes \cup {"copy_az_err", "copy_za_err"}
        \cup (IF latitude_rad = NullPtr THEN {} ELSE {"copy_latitude_err"})

-----------------------------------------------------------------------------
(* FfiSafetyShim: the boundary functions of src/src/fee/ffi/mod.rs.       *)

\* The process is running: no call has ended it or left it undefined.
Running == process = "running"

\* A call that never returns a status.
NoReturn == "no return"

\* A panic inside a call that has neither set a hook nor entered
\* catch_unwind: the hook in place runs, the last-error slot is not
\* touched, and the panic unwinds into the `extern "C"` frame, which aborts
\* the process (or is undefined behaviour in a build that lets it unwind
\* into the caller).
Aborted(fn, handle, flags, latitude_rad, trace) ==
    /\ Running
    /\ call' = CallRec(fn, handle, flags, latitude_rad, NoReturn,
                       Append(trace, [op |-> "panic", what |-> hook]), NoMsg, NoOut,
                       "none", <<>>)
    /\ process' \in {"terminated", "undefined"}
    /\ UNCHANGED <<mem, threads, fee_beams, gpu_beams, hook, last_error>>

\* A call that reaches `&*handle` (or Box::from_raw(handle)) with the handle
\* of an engine that has been freed: undefined behaviour.  The call may end
\* the process or go on with whatever the freed memory holds; nothing is
\* known of the process afterwards.
Dangling(fn, handle, flags, latitude_rad, trace) ==
    /\ Running
    /\ call' = CallRec(fn, handle, flags, latitude_rad, NoReturn,
                       Append(trace, [op |-> "use_after_free", what |-> handle]), NoMsg,
                       NoOut, "none", <<>>)
    /\ process' \in {"terminated", "undefined"}
    /\ UNCHANGED <<mem, threads, fee_beams, gpu_beams, hook, last_error>>

\* The 8 doubles written for one Jones matrix: the real and the imaginary
\* part of j[0], then of j[1], j[2] and j[3].
unpack_jones(j) ==
    [x \in 1..8 |-> <<Entry(j, (x + 1) \div 2), IF x % 2 = 1 THEN "re" ELSE "im">>]

\* FEEBeamGpu::calc_jones_pair_inner: the device results copied into the
\* caller's view of the given shape, element by element.
calc_jones_pair_inner(beam, az, za, latitude_rad, iau_order, shape) ==
    LET d_results == gpu_calc_jones(beam, az, za, latitude_rad, iau_order)
    IN  [x \in 1..(shape[1] * shape[2] * shape[3]) |->
            LET i0 == (x - 1) \div (shape[2] * shape[3])
                i1 == ((x - 1) \div shape[3]) % shape[2]
                i2 == (x - 1) % shape[3]
            IN  d_results[(i0 * beam.num_unique_freqs + i1) * Len(az) + i2 + 1]]

\* new_fee_beam: install the panic hook, load the coefficient file inside
\* catch_unwind, take the hook, and hand out the engine.
new_fee_beam(result) ==
    LET trace == <<[op |-> "hook", what |-> "set"], Deref("hdf5_file")>>
                 \o (IF result = "bad_utf8" THEN <<>> ELSE <<Engine("FEEBeam::new")>>)
                 \o <<[op |-> "hook", what |-> "take"]>>
        done(ret, err, tr, h) ==
            /\ call' = CallRec("new_fee_beam", "none", <<>>, NullPtr, ret, tr, err, NoOut, h, <<>>)
            /\ last_error' = update_last_error(err)
            /\ hook' = DefaultHook
    IN  /\ Running /\ UNCHANGED <<mem, threads, process, gpu_beams>>
        /\ CASE result = "bad_utf8" ->
                    done(2, BadUtf8, trace, "none") /\ UNCHANGED fee_beams
             [] result = "error" ->
                    done(1, EngineError, trace, "none") /\ UNCHANGED fee_beams
             [] result = "panic" ->
                    done(-1, PanicMessage, trace, "none") /\ UNCHANGED fee_beams
             [] result = "ok" ->
                    \E h \in CpuHandles :
                        /\ fee_beams[h] = "none"
                        /\ fee_beams' = [fee_beams EXCEPT ![h] = "live"]
                        /\ done(0, NoMsg, Append(trace, Write("fee_beam")), h)

\* A faulty variant of new_fee_beam_from_env: when the engine is not made
\* the function returns before panic::take_hook, so its hook stays set.
new_fee_beam_from_env_early_return(result) ==
    LET trace == <<[op |-> "hook", what |-> "set"], Engine("FEEBeam::new_from_env")>>
        done(ret, err, tr, h, hk) ==
            /\ call' = CallRec("new_fee_beam_from_env", "none", <<>>, NullPtr, ret, tr, err,
                               NoOut, h, <<>>)
            /\ last_error' = update_last_error(err)
            /\ hook' = hk
    IN  /\ Running /\ UNCHANGED <<mem, threads, process, gpu_beams>>
        /\ CASE result = "error" ->
                    done(1, EngineError, trace, "none", PanicHook) /\ UNCHANGED fee_beams
             [] result = "panic" ->
                    done(-1, PanicMessage, trace, "none", PanicHook) /\ UNCHANGED fee_beams
             [] result = "ok" ->
                    \E h \in CpuHandles :
                        /\ fee_beams[h] = "none"
                        /\ fee_beams' = [fee_beams EXCEPT ![h] = "live"]
                        /\ done(0, NoMsg,
                                trace \o <<[op |-> "hook", what |-> "take"], Write("fee_beam")>>,
                                h, DefaultHook)

\* new_fee_beam_from_env: as new_fee_beam, the path coming from the
\* environment variable MWA_BEAM_FILE.
new_fee_beam_from_env(result) ==
    LET trace == <<[op |-> "hook", what |-> "set"], Engine("FEEBeam::new_from_env"),
                   [op |-> "hook", what |-> "take"]>>
        done(ret, err, tr, h) ==
            /\ call' = CallRec("new_fee_beam_from_env", "none", <<>>, NullPtr, ret, tr, err,
                               NoOut, h, <<>>)
            /\ last_error' = update_last_error(err)
            /\ hook' = DefaultHook
    IN  /\ Running /\ UNCHANGED <<mem, threads, process, gpu_beams>>
        /\ CASE result = "error" ->
                    done(1, EngineError, trace, "none") /\ UNCHANGED fee_beams
             [] result = "panic" ->
                    done(-1, PanicMessage, trace, "none") /\ UNCHANGED fee_beams
             [] result = "ok" ->
                    \E h \in CpuHandles :
                        /\ fee_beams[h] = "none"
                        /\ fee_beams' = [fee_beams EXCEPT ![h] = "live"]
                        /\ done(0, NoMsg, Append(trace, Write("fee_beam")), h)

\* `match num_amps { 16 | 32 => (), _ => return 1 }`.
num_amps_ok(num_amps) == num_amps \in {16, 32}

\* A faulty variant of bool_flag_ok: `match flag { 0 => false, _ => true }`
\* as far as acceptance goes, so no value of a flag is turned away.
bool_flag_any(flag) == TRUE

\* A faulty variant of match_bool: the two arms are exchanged, so 0 stands
\* for true and 1 for false.
match_bool_exchanged(flag) == flag = 0

\* `match flag { 0 => false, 1 => true, _ => return 1 }`: whether the flag
\* is accepted, and the boolean it stands for.
bool_flag_ok(flag) == flag \in {0, 1}
match_bool(flag) == flag = 1

\* A faulty variant of as_ref_copied: the latitude is never passed on.
as_ref_dropped(latitude_rad) == NullPtr

\* `latitude_rad.as_ref().copied()`: the latitude behind the pointer, or
\* none for a null pointer.
as_ref_copied(latitude_rad) == latitude_rad

\* A faulty variant of Rejected: the error message is recorded but the
\* `return 1` is left out, so the call goes on to return 0.
RejectedReturnsZero(fn, handle, flags, latitude_rad, trace, err) ==
    /\ call' = CallRec(fn, handle, flags, latitude_rad, 0, trace, err, NoOut, "none", <<>>)
    /\ last_error' = update_last_error(err)
    /\ Running /\ UNCHANGED <<mem, threads, process, fee_beams, gpu_beams, hook>>

\* A faulty variant of Rejected: the call returns 1 without recording its
\* message.
RejectedSilently(fn, handle, flags, latitude_rad, trace, err) ==
    /\ call' = CallRec(fn, handle, flags, latitude_rad, 1, trace, err, NoOut, "none", <<>>)
    /\ Running /\ UNCHANGED <<mem, threads, process, fee_beams, gpu_beams, hook, last_error>>

\* A call that ends in `return 1` after update_last_error(err).
Rejected(fn, handle, flags, latitude_rad, trace, err) ==
    /\ call' = CallRec(fn, handle, flags, latitude_rad, 1, trace, err, NoOut, "none", <<>>)
    /\ last_error' = update_last_error(err)
    /\ Running /\ UNCHANGED <<mem, threads, process, fee_beams, gpu_beams, hook>>

\* A faulty variant of Returned: a compute call on a GPU engine leaves the
\* engine with its normalisation setting switched.
ReturnedRenormalised(fn, handle, flags, latitude_rad, trace, out) ==
    /\ call' = CallRec(fn, handle, flags, latitude_rad, 0, trace, NoMsg, out, "none", <<>>)
    /\ gpu_beams' = [g \in DOMAIN gpu_beams |->
                        IF g = handle
                        THEN [gpu_beams[g] EXCEPT !.beam.norm_to_zenith = ~@]
                        ELSE gpu_beams[g]]
    /\ Running /\ UNCHANGED <<mem, threads, process, fee_beams, hook, last_error>>

\* A call that ends in 0 after writing out to its output buffer.
Returned(fn, handle, flags, latitude_rad, trace, out) ==
    /\ call' = CallRec(fn, handle, flags, latitude_rad, 0, trace, NoMsg, out, "none", <<>>)
    /\ Running /\ UNCHANGED <<mem, threads, process, fee_beams, gpu_beams, hook, last_error>>

\* `latitude_rad.as_ref().copied()` reads the latitude unless the pointer
\* is null.
ReadLatitude(latitude_rad) ==
    IF latitude_rad = NullPtr THEN <<>> ELSE <<Deref("latitude_rad")>>

\* fee_calc_jones: the beam response of the tile in row t of the caller's
\* tables, at the caller's frequency f, towards the caller's direction d.
fee_calc_jones(fee_beam, d, f, t, num_amps, norm_to_zenith, latitude_rad, iau_order, result) ==
    LET fn == "fee_calc_jones"
        flags == [num_amps |-> num_amps, norm_to_zenith |-> norm_to_zenith,
                  iau_order |-> iau_order]
        t1 == <<Check("num_amps")>>
        t2 == Append(t1, Check("norm_to_zenith"))
        t3 == t2 \o ReadLatitude(latitude_rad)
        t4 == Append(t3, Check("iau_order"))
        t5 == t4 \o <<Deref("fee_beam"), Deref("delays"), Deref("amps"),
                      Engine("calc_jones_pair")>>
        delays_s == slice_from_raw_parts(MemDelays(t), 16)
        amps_s == slice_from_raw_parts(MemAmps(t), num_amps)
    IN  IF ~num_amps_ok(num_amps) THEN
            Rejected(fn, fee_beam, flags, latitude_rad, t1, BadNumAmps)
        ELSE IF ~bool_flag_ok(norm_to_zenith) THEN
            Rejected(fn, fee_beam, flags, latitude_rad, t2, BadNorm)
        ELSE IF ~bool_flag_ok(iau_order) THEN
            Rejected(fn, fee_beam, flags, latitude_rad, t4, BadIau)
        ELSE IF fee_beams[fee_beam] = "freed" THEN
            Dangling(fn, fee_beam, flags, latitude_rad, t4)
        ELSE /\ fee_beams[fee_beam] = "live"
             /\ IF result = "ok" THEN
                    Returned(fn, fee_beam, flags, latitude_rad, Append(t5, Write("jones")),
                             unpack_jones(calc_jones_pair(mem.az_rad[d], mem.za_rad[d],
                                 mem.freqs_hz[f], delays_s, amps_s, match_bool(norm_to_zenith),
                                 as_ref_copied(latitude_rad), match_bool(iau_order))))
                ELSE IF result = "err" THEN
                    Rejected(fn, fee_beam, flags, latitude_rad, t5, EngineError)
                ELSE Aborted(fn, fee_beam, flags, latitude_rad, t5)

\* The result of direction i has been written to slot i of the output.
Slot(i) == [op |-> "slot", what |-> i]

\* A faulty variant of PartialBatch: the error of the engine is dropped and
\* the call returns 0 over a buffer that is only partly written.
PartialBatchAccepted(fn, handle, flags, latitude_rad, trace, out) ==
    /\ call' = CallRec(fn, handle, flags, latitude_rad, 0, trace, NoMsg, out, "none", <<>>)
    /\ Running /\ UNCHANGED <<mem, threads, process, fee_beams, gpu_beams, hook, last_error>>

\* ffi_error! around calc_jones_array_pair_inner when the engine fails:
\* update_last_error and `return 1`, with the caller's buffer holding what
\* the engine had written into it by then.
PartialBatch(fn, handle, flags, latitude_rad, trace, out) ==
    /\ call' = CallRec(fn, handle, flags, latitude_rad, 1, trace, EngineError, out, "none", <<>>)
    /\ last_error' = update_last_error(EngineError)
    /\ Running /\ UNCHANGED <<mem, threads, process, fee_beams, gpu_beams, hook>>

\* fee_calc_jones_array: the beam responses of one tile at one frequency
\* towards all of the caller's directions.  The engine's tasks finish in
\* the order of schedule, and n_done of them have written their slot when
\* the engine returns.
fee_calc_jones_array(fee_beam, f, t, num_amps, norm_to_zenith, latitude_rad, iau_order, result, schedule, n_done) ==
    LET fn == "fee_calc_jones_array"
        flags == [num_amps |-> num_amps, norm_to_zenith |-> norm_to_zenith,
                  iau_order |-> iau_order]
        t1 == <<Check("num_amps")>>
        t2 == Append(t1, Check("norm_to_zenith"))
        t3 == t2 \o ReadLatitude(latitude_rad)
        t4 == Append(t3, Check("iau_order"))
        t5 == t4 \o <<Deref("fee_beam"), Deref("az_rad"), Deref("za_rad"), Deref("delays"),
                      Deref("amps"), Engine("calc_jones_array_pair_inner")>>
        t6 == t5 \o [k \in 1..n_done |-> Slot(schedule[k])]
        az == slice_from_raw_parts(mem.az_rad, mem.num_azza)
        za == slice_from_raw_parts(mem.za_rad, mem.num_azza)
        delays_s == slice_from_raw_parts(MemDelays(t), 16)
        amps_s == slice_from_raw_parts(MemAmps(t), num_amps)
        results_s == StaleBuffer(mem.num_azza)
        written == calc_jones_array_pair_inner(az, za, mem.freqs_hz[f], delays_s, amps_s,
                       match_bool(norm_to_zenith), as_ref_copied(latitude_rad),
                       match_bool(iau_order), results_s, schedule, n_done)
    IN  IF ~num_amps_ok(num_amps) THEN
            Rejected(fn, fee_beam, flags, latitude_rad, t1, BadNumAmps)
        ELSE IF ~bool_flag_ok(norm_to_zenith) THEN
            Rejected(fn, fee_beam, flags, latitude_rad, t2, BadNorm)
        ELSE IF ~bool_flag_ok(iau_order) THEN
            Rejected(fn, fee_beam, flags, latitude_rad, t4, BadIau)
        ELSE IF fee_beams[fee_beam] = "freed" THEN
            Dangling(fn, fee_beam, flags, latitude_rad, t4)
        ELSE /\ fee_beams[fee_beam] = "live"
             /\ IF result = "ok" THEN
                    /\ n_done = mem.num_azza
                    /\ Returned(fn, fee_beam, flags, latitude_rad, Append(t6, Write("jones")),
                                written)
                ELSE IF result = "err" THEN
                    /\ n_done < mem.num_azza
                    /\ PartialBatch(fn, fee_beam, flags, latitude_rad, t6, written)
                ELSE Aborted(fn, fee_beam, flags, latitude_rad, t6)

\* get_fee_beam_freqs: hand out the engine's list of available frequencies
\* and its length.
get_fee_beam_freqs(fee_beam) ==
    IF fee_beams[fee_beam] = "freed" THEN
        Dangling("get_fee_beam_freqs", fee_beam, <<>>, NullPtr, <<>>)
    ELSE /\ fee_beams[fee_beam] = "live"
         /\ call' = CallRec("get_fee_beam_freqs", fee_beam, <<>>, NullPtr, 0,
                            <<Deref("fee_beam"), Write("freqs_ptr"), Write("num_freqs")>>,
                            NoMsg, NoOut, "none", <<Cardinality(StoreFreqs)>>)
         /\ Running /\ UNCHANGED <<mem, threads, process, fee_beams, gpu_beams, last_error, hook>>

\* fee_closest_freq: the available frequency closest to the given one.
fee_closest_freq(fee_beam, freq) ==
    IF fee_beams[fee_beam] = "freed" THEN
        Dangling("fee_closest_freq", fee_beam, <<>>, NullPtr, <<>>)
    ELSE /\ fee_beams[fee_beam] = "live"
         /\ call' = CallRec("fee_closest_freq", fee_beam, <<>>, NullPtr, 0, <<Deref("fee_beam")>>,
                            NoMsg, NoOut, "none", <<find_closest_freq(freq)>>)
         /\ Running /\ UNCHANGED <<mem, threads, process, fee_beams, gpu_beams, last_error, hook>>

\* A faulty variant of free_fee_beam: the box is rebuilt from the handle but
\* forgotten rather than dropped, so the engine is never freed.
free_fee_beam_forgets(fee_beam) ==
    /\ fee_beams[fee_beam] = "live"
    /\ call' = CallRec("free_fee_beam", fee_beam, <<>>, NullPtr, 0, <<Deref("fee_beam")>>,
                       NoMsg, NoOut, "none", <<>>)
    /\ Running /\ UNCHANGED <<mem, threads, process, fee_beams, gpu_beams, last_error, hook>>

\* free_fee_beam: drop the engine behind the handle.
free_fee_beam(fee_beam) ==
    IF fee_beams[fee_beam] = "freed" THEN
        Dangling("free_fee_beam", fee_beam, <<>>, NullPtr, <<>>)
    ELSE /\ fee_beams[fee_beam] = "live"
         /\ fee_beams' = [fee_beams EXCEPT ![fee_beam] = "freed"]
         /\ call' = CallRec("free_fee_beam", fee_beam, <<>>, NullPtr, 0, <<Deref("fee_beam")>>,
                            NoMsg, NoOut, "none", <<>>)
         /\ Running /\ UNCHANGED <<mem, threads, process, gpu_beams, last_error, hook>>

\* new_gpu_fee_beam: check the flags, view the caller's buffers as a
\* frequency list, a table of gains and a table of delays, borrow the CPU
\* engine, build the GPU engine and hand it out.
new_gpu_fee_beam(fee_beam, num_freqs, num_tiles, num_amps, norm_to_zenith, result) ==
    LET fn == "new_gpu_fee_beam"
        flags == [num_amps |-> num_amps, norm_to_zenith |-> norm_to_zenith]
        t1 == <<Check("num_amps")>>
        t2 == Append(t1, Check("norm_to_zenith"))
        tv == t2 \o <<Deref("freqs_hz"), Deref("amps"), Deref("delays")>>
        t3 == tv \o <<Deref("fee_beam"), Engine("gpu_prepare")>>
        freqs == slice_from_raw_parts(mem.freqs_hz, num_freqs)
        amps == ArrayView2_from_shape_ptr(num_tiles, num_amps, mem.amps)
        delays == ArrayView2_from_shape_ptr(num_tiles, 16, mem.delays)
    IN  IF ~num_amps_ok(num_amps) THEN
            Rejected(fn, fee_beam, flags, NullPtr, t1, BadNumAmps)
        ELSE IF ~bool_flag_ok(norm_to_zenith) THEN
            Rejected(fn, fee_beam, flags, NullPtr, t2, BadNorm)
        ELSE IF fee_beams[fee_beam] = "freed" THEN
            Dangling(fn, fee_beam, flags, NullPtr, tv)
        ELSE /\ fee_beams[fee_beam] = "live"
             /\ IF result = "ok" THEN
                    \E g \in DOMAIN gpu_beams :
                        /\ gpu_beams[g].status = "none"
                        /\ gpu_beams' = [gpu_beams EXCEPT ![g] =
                               LiveBeam(gpu_prepare(freqs, delays, amps,
                                                    match_bool(norm_to_zenith)))]
                        /\ call' = CallRec(fn, fee_beam, flags, NullPtr, 0,
                                           Append(t3, Write("gpu_fee_beam")), NoMsg, NoOut, g, <<>>)
                        /\ Running /\ UNCHANGED <<mem, threads, process, fee_beams, hook, last_error>>
                ELSE IF result = "err" THEN
                    Rejected(fn, fee_beam, flags, NullPtr, t3, EngineError)
                ELSE Aborted(fn, fee_beam, flags, NullPtr, t3)

\* fee_calc_jones_gpu: the beam responses of every unique tile and unique
\* frequency of the engine towards the caller's directions, written to a
\* host buffer viewed as [num_unique_tiles, num_unique_freqs, num_azza].
fee_calc_jones_gpu(gpu_fee_beam, num_azza, latitude_rad, iau_order, result) ==
    LET fn == "fee_calc_jones_gpu"
        flags == [iau_order |-> iau_order]
        t1 == <<Check("iau_order")>>
        t2 == t1 \o <<Deref("gpu_fee_beam"), Deref("az_rad"), Deref("za_rad")>>
                 \o ReadLatitude(latitude_rad) \o <<Engine("calc_jones_pair_inner")>>
        beam == gpu_beams[gpu_fee_beam].beam
        az == slice_from_raw_parts(mem.az_rad, num_azza)
        za == slice_from_raw_parts(mem.za_rad, num_azza)
        shape == <<beam.num_unique_tiles, beam.num_unique_freqs, num_azza>>
    IN  IF ~bool_flag_ok(iau_order) THEN
            Rejected(fn, gpu_fee_beam, flags, latitude_rad, t1, BadIau)
        ELSE IF gpu_beams[gpu_fee_beam].status = "freed" THEN
            Dangling(fn, gpu_fee_beam, flags, latitude_rad, t1)
        ELSE /\ Live(gpu_fee_beam)
             /\ IF result = "ok" THEN
                    Returned(fn, gpu_fee_beam, flags, latitude_rad, Append(t2, Write("jones")),
                             calc_jones_pair_inner(beam, az, za, as_ref_copied(latitude_rad),
                                                   match_bool(iau_order), shape))
                ELSE IF result = "err" THEN
                    Rejected(fn, gpu_fee_beam, flags, latitude_rad, t2, EngineError)
                ELSE Aborted(fn, gpu_fee_beam, flags, latitude_rad, t2)

\* `num_azza as usize` of a 32-bit signed count: the count itself, or for
\* a negative count 2^64 + num_azza, which is more than isize::MAX.
as_usize_exceeds_isize_max(num_azza) == num_azza < 0

\* One host array of len elements is copied to the device, and the
\* direction count handed to the device computation.
CopyToDevice(what, len) == [op |-> "copy_to_device", what |-> <<what, len>>]
DeviceCount(num_azza) == [op |-> "device_count", what |-> num_azza]

\* slice::from_raw_parts(az_rad, len) with len above isize::MAX: undefined
\* behaviour.  The process may end there or be in an unknown state, or the
\* call may go on to DevicePointer::copy_to_device, which cannot allocate
\* so much, and return 1 through ffi_error!.
Oversized(fn, handle, flags, latitude_rad, trace, num_azza) ==
    LET tr == Append(trace, [op |-> "oversized_slice", what |-> num_azza])
    IN  /\ Running
        /\ \/ /\ call' = CallRec(fn, handle, flags, latitude_rad, NoReturn, tr, NoMsg, NoOut,
                                  "none", <<>>)
              /\ process' \in {"terminated", "undefined"}
              /\ UNCHANGED last_error
           \/ /\ call' = CallRec(fn, handle, flags, latitude_rad, 1, tr, EngineError, NoOut,
                                  "none", <<>>)
              /\ last_error' = update_last_error(EngineError)
              /\ UNCHANGED process
        /\ UNCHANGED <<mem, threads, fee_beams, gpu_beams, hook>>

\* `latitude_rad.as_ref().map(|f| DevicePointer::copy_to_device(&[*f as
\* GpuFloat]))`: the events of reading the caller's latitude and copying it
\* to the device as an array of one element; none for a null pointer.
CopyLatitude(latitude_rad) ==
    IF latitude_rad = NullPtr THEN <<>>
    ELSE <<Deref("latitude_rad"), CopyToDevice("latitude", 1)>>

\* `d_latitude_rad.map(|p| p.get()).unwrap_or(std::ptr::null())`: the device
\* copy of the latitude is moved into the closure and dropped when the
\* closure returns, so the pointer handed to the engine names device memory
\* that is freed already.  What the engine reads there is the latitude, if
\* the memory is untouched, or whatever the memory holds by then.  A null
\* latitude is passed on as a null pointer.
map_get_dropped(latitude_rad) ==
    IF latitude_rad = NullPtr THEN {NullPtr} ELSE {latitude_rad, FreedDeviceMemory}

\* The pointer to the latitude that the engine is given, with what the
\* engine has read behind it.
DeviceLatitude(seen) == [op |-> "device_latitude", what |-> seen]

\* fee_calc_jones_gpu_device: as fee_calc_jones_gpu, but the directions and
\* the latitude are copied to the device here and the results are left in a
\* device buffer.  The direction count is a signed 32-bit number and is not
\* checked; each copy can fail, which ends the call with status 1.
fee_calc_jones_gpu_device(gpu_fee_beam, num_azza, latitude_rad, iau_order, result) ==
    LET fn == "fee_calc_jones_gpu_device"
        flags == [iau_order |-> iau_order]
        t1 == <<Check("iau_order")>>
        ts == t1 \o <<Deref("gpu_fee_beam"), Deref("az_rad")>>
        az == slice_from_raw_parts(mem.az_rad, num_azza)
        za == slice_from_raw_parts(mem.za_rad, num_azza)
        taz == t1 \o <<Deref("gpu_fee_beam"), Deref("az_rad"), Deref("za_rad"),
                       CopyToDevice("az", Len(az))>>
        tza == Append(taz, CopyToDevice("za", Len(za)))
        tlat == tza \o CopyLatitude(latitude_rad)
        beam == gpu_beams[gpu_fee_beam].beam
    IN  IF ~bool_flag_ok(iau_order) THEN
            Rejected(fn, gpu_fee_beam, flags, latitude_rad, t1, BadIau)
        ELSE IF gpu_beams[gpu_fee_beam].status = "freed" THEN
            Dangling(fn, gpu_fee_beam, flags, latitude_rad, t1)
        ELSE IF as_usize_exceeds_isize_max(num_azza) THEN
            Live(gpu_fee_beam) /\ Oversized(fn, gpu_fee_beam, flags, latitude_rad, ts, num_azza)
        ELSE /\ Live(gpu_fee_beam)
             /\ IF result = "copy_az_err" THEN
                    Rejected(fn, gpu_fee_beam, flags, latitude_rad, taz, EngineError)
                ELSE IF result = "copy_za_err" THEN
                    Rejected(fn, gpu_fee_beam, flags, latitude_rad, tza, EngineError)
                ELSE IF result = "copy_latitude_err" THEN
                    Rejected(fn, gpu_fee_beam, flags, latitude_rad, tlat, EngineError)
                ELSE \E seen \in map_get_dropped(latitude_rad) :
                    LET t2 == tlat \o <<DeviceCount(num_azza), DeviceLatitude(seen),
                                        Engine("calc_jones_device_pair_inner")>>
                    IN  IF result = "ok" THEN
                            Returned(fn, gpu_fee_beam, flags, latitude_rad,
                                     Append(t2, Write("d_jones")),
                                     gpu_calc_jones(beam, az, za, seen, match_bool(iau_order)))
                        ELSE IF result = "err" THEN
                            Rejected(fn, gpu_fee_beam, flags, latitude_rad, t2, EngineError)
                        ELSE Aborted(fn, gpu_fee_beam, flags, latitude_rad, t2)

\* fee_calc_jones_gpu_device_inner: as fee_calc_jones_gpu_device, with the
\* directions and the latitude already on the device.
fee_calc_jones_gpu_device_inner(gpu_fee_beam, num_azza, d_latitude_rad, iau_order, result) ==
    LET fn == "fee_calc_jones_gpu_device_inner"
        flags == [iau_order |-> iau_order]
        t1 == <<Check("iau_order")>>
        t2 == t1 \o <<Deref("gpu_fee_beam"), Engine("calc_jones_device_pair_inner")>>
        beam == gpu_beams[gpu_fee_beam].beam
        d_az == SubSeq(mem.az_rad, 1, num_azza)
        d_za == SubSeq(mem.za_rad, 1, num_azza)
    IN  IF ~bool_flag_ok(iau_order) THEN
            Rejected(fn, gpu_fee_beam, flags, d_latitude_rad, t1, BadIau)
        ELSE IF gpu_beams[gpu_fee_beam].status = "freed" THEN
            Dangling(fn, gpu_fee_beam, flags, d_latitude_rad, t1)
        ELSE /\ Live(gpu_fee_beam)
             /\ IF result = "ok" THEN
                    Returned(fn, gpu_fee_beam, flags, d_latitude_rad,
                             Append(t2, Write("d_jones")),
                             gpu_calc_jones(beam, d_az, d_za, d_latitude_rad, match_bool(iau_order)))
                ELSE IF result = "err" THEN
                    Rejected(fn, gpu_fee_beam, flags, d_latitude_rad, t2, EngineError)
                ELSE Aborted(fn, gpu_fee_beam, flags, d_latitude_rad, t2)

\* The accessors of a GPU engine.
\* Faulty variants of the accessors: a tile map of 1-based indices, a
\* frequency map that is the tile map, and each count read from the other
\* field.
get_fee_tile_map_one_based(gpu_fee_beam) ==
    [i \in 1..Len(gpu_beams[gpu_fee_beam].beam.tile_map) |->
        gpu_beams[gpu_fee_beam].beam.tile_map[i] + 1]
get_fee_freq_map_of_tiles(gpu_fee_beam) == gpu_beams[gpu_fee_beam].beam.tile_map
get_num_unique_fee_tiles_of_freqs(gpu_fee_beam) ==
    gpu_beams[gpu_fee_beam].beam.num_unique_freqs
get_num_unique_fee_freqs_of_tiles(gpu_fee_beam) ==
    gpu_beams[gpu_fee_beam].beam.num_unique_tiles

get_fee_tile_map(gpu_fee_beam) == gpu_beams[gpu_fee_beam].beam.tile_map
get_fee_device_tile_map(gpu_fee_beam) == gpu_beams[gpu_fee_beam].beam.tile_map
get_fee_freq_map(gpu_fee_beam) == gpu_beams[gpu_fee_beam].beam.freq_map
get_fee_device_freq_map(gpu_fee_beam) == gpu_beams[gpu_fee_beam].beam.freq_map
get_num_unique_fee_tiles(gpu_fee_beam) == gpu_beams[gpu_fee_beam].beam.num_unique_tiles
get_num_unique_fee_freqs(gpu_fee_beam) == gpu_beams[gpu_fee_beam].beam.num_unique_freqs

AccessorNames ==
    {"get_fee_tile_map", "get_fee_device_tile_map", "get_fee_freq_map",
     "get_fee_device_freq_map", "get_num_unique_fee_tiles", "get_num_unique_fee_freqs"}

\* A call of one of the accessors.
accessor(fn, gpu_fee_beam) ==
    IF gpu_beams[gpu_fee_beam].status = "freed" THEN
        Dangling(fn, gpu_fee_beam, <<>>, NullPtr, <<>>)
    ELSE /\ Live(gpu_fee_beam)
         /\ call' = CallRec(fn, gpu_fee_beam, <<>>, NullPtr, 0, <<Deref("gpu_fee_beam")>>, NoMsg,
                            NoOut, "none",
                            CASE fn = "get_fee_tile_map" -> get_fee_tile_map(gpu_fee_beam)
                              [] fn = "get_fee_device_tile_map" -> get_fee_device_tile_map(gpu_fee_beam)
                              [] fn = "get_fee_freq_map" -> get_fee_freq_map(gpu_fee_beam)
                              [] fn = "get_fee_device_freq_map" -> get_fee_device_freq_map(gpu_fee_beam)
                              [] fn = "get_num_unique_fee_tiles" ->
                                     <<get_num_unique_fee_tiles(gpu_fee_beam)>>
                              [] fn = "get_num_unique_fee_freqs" ->
                                     <<get_num_unique_fee_freqs(gpu_fee_beam)>>)
         /\ Running /\ UNCHANGED <<mem, threads, process, fee_beams, gpu_beams, last_error, hook>>

\* free_gpu_fee_beam: drop the GPU engine behind the handle.
free_gpu_fee_beam(gpu_fee_beam) ==
    IF gpu_beams[gpu_fee_beam].status = "freed" THEN
        Dangling("free_gpu_fee_beam", gpu_fee_beam, <<>>, NullPtr, <<>>)
    ELSE /\ Live(gpu_fee_beam)
         /\ gpu_beams' = [gpu_beams EXCEPT ![gpu_fee_beam] = FreedBeam]
         /\ call' = CallRec("free_gpu_fee_beam", gpu_fee_beam, <<>>, NullPtr, 0,
                            <<Deref("gpu_fee_beam")>>, NoMsg, NoOut, "none", <<>>)
         /\ Running /\ UNCHANGED <<mem, threads, process, fee_beams, last_error, hook>>

-----------------------------------------------------------------------------------------------------------------------------------------------------
(* The creation functions step by step, for calls made by several threads. *)

Threads == {"t1", "t2"}
ThreadHandles == {"b1", "b2"}

\* A thread that is making no call.
Idle == [pc |-> "idle", fn |-> "none", result |-> "none", captured |-> FALSE,
         overlapped |-> FALSE, ret |-> NoReturn]

\* A thread is inside a creation call from panic::set_hook until the call
\* returns.
Inside(t) == threads[t].pc \in {"hooked", "ran", "taken"}

\* The outcomes of what catch_unwind runs in each creation function.
ThreadOutcomes(fn) ==
    IF fn = "new_fee_beam" THEN {"ok", "bad_utf8", "error", "panic"} ELSE {"ok", "error", "panic"}

\* A faulty variant of thread_set_hook: the call is entered without
\* setting its panic hook.
thread_set_hook_skipped(t, fn) ==
    /\ Running /\ threads[t].pc = "idle"
    /\ threads' = [u \in Threads |->
                       IF u = t
                       THEN [Idle EXCEPT !.pc = "hooked", !.fn = fn,
                                         !.overlapped = \E v \in Threads \ {t} : Inside(v)]
                       ELSE IF Inside(u) THEN [threads[u] EXCEPT !.overlapped = TRUE]
                       ELSE threads[u]]
    /\ UNCHANGED <<mem, process, fee_beams, gpu_beams, last_error, call, hook>>

\* panic::set_hook(..): thread t enters the creation function fn and makes
\* its closure the process's panic hook.  The call overlaps every call that
\* another thread is inside of.
thread_set_hook(t, fn) ==
    /\ Running /\ threads[t].pc = "idle"
    /\ hook' = PanicHook
    /\ threads' = [u \in Threads |->
                       IF u = t
                       THEN [Idle EXCEPT !.pc = "hooked", !.fn = fn,
                                         !.overlapped = \E v \in Threads \ {t} : Inside(v)]
                       ELSE IF Inside(u) THEN [threads[u] EXCEPT !.overlapped = TRUE]
                       ELSE threads[u]]
    /\ UNCHANGED <<mem, process, fee_beams, gpu_beams, last_error, call>>

\* panic::catch_unwind(..): the path is read and the engine made, or one
\* of them fails.  An error stores its message itself; a panic runs the
\* process's panic hook, which stores the message only if it is the
\* closure of a creation function, and is then caught.
thread_catch_unwind(t, result) ==
    /\ Running /\ threads[t].pc = "hooked"
    /\ result \in ThreadOutcomes(threads[t].fn)
    /\ LET stored == CASE result = "ok" -> NoMsg
                        [] result = "bad_utf8" -> BadUtf8
                        [] result = "error" -> EngineError
                        [] result = "panic" -> IF hook = PanicHook THEN PanicMessage ELSE NoMsg
       IN  /\ last_error' = update_last_error(stored)
           /\ threads' = [threads EXCEPT ![t].pc = "ran", ![t].result = result,
                                          ![t].captured = (stored # NoMsg)]
    /\ UNCHANGED <<mem, process, fee_beams, gpu_beams, hook, call>>

\* `let _ = panic::take_hook()`: the process's panic hook is unregistered,
\* whichever call set it, and the default hook is back.
thread_take_hook(t) ==
    /\ Running /\ threads[t].pc = "ran"
    /\ hook' = DefaultHook
    /\ threads' = [threads EXCEPT ![t].pc = "taken"]
    /\ UNCHANGED <<mem, process, fee_beams, gpu_beams, last_error, call>>

\* `match result { .. }`: the handle is written and 0 returned, or the
\* status of the failure is returned.
thread_return(t) ==
    LET th == threads[t]
        ret == CASE th.result = "ok" -> 0
                 [] th.result = "bad_utf8" -> 2
                 [] th.result = "error" -> 1
                 [] th.result = "panic" -> -1
        err == CASE th.result = "ok" -> NoMsg
                 [] th.result = "bad_utf8" -> BadUtf8
                 [] th.result = "error" -> EngineError
                 [] th.result = "panic" -> IF th.captured THEN PanicMessage ELSE NoMsg
        trace == <<[op |-> "hook", what |-> "set"]>>
                 \o (IF th.fn = "new_fee_beam" THEN <<Deref("hdf5_file")>> ELSE <<>>)
                 \o (IF th.result = "bad_utf8" THEN <<>>
                     ELSE <<Engine(IF th.fn = "new_fee_beam" THEN "FEEBeam::new"
                                   ELSE "FEEBeam::new_from_env")>>)
                 \o <<[op |-> "hook", what |-> "take"]>>
    IN  /\ Running /\ th.pc = "taken"
        /\ threads' = [threads EXCEPT ![t].pc = "returned", ![t].ret = ret]
        /\ IF th.result = "ok"
           THEN \E h \in DOMAIN fee_beams :
                    /\ fee_beams[h] = "none"
                    /\ fee_beams' = [fee_beams EXCEPT ![h] = "live"]
                    /\ call' = CallRec(th.fn, "none", <<>>, NullPtr, ret,
                                       Append(trace, Write("fee_beam")), err, NoOut, h, <<>>)
           ELSE /\ call' = CallRec(th.fn, "none", <<>>, NullPtr, ret, trace, err, NoOut,
                                   "none", <<>>)
                /\ UNCHANGED fee_beams
        /\ UNCHANGED <<mem, process, gpu_beams, last_error, hook>>

-----
(* The specifications.                                                    *)

\* The caller's data of the boundary specification: the table of
\* test_cuda_calc_jones_no_amps, or one tile with 32 gains.
BoundaryMems ==
    {Mem(<<150000000>>, NoAmpsTiles, 16),
     Mem(<<150000000>>, <<TileXY0>>, 32)}

Init ==
    /\ mem \in BoundaryMems
    /\ fee_beams = [h \in CpuHandles |-> "none"]
    /\ gpu_beams = [g \in GpuHandles |-> NoBeam]
    /\ last_error = NoMsg
    /\ hook \in {DefaultHook, HostHook}
    /\ call = NoCall
    /\ process = "running"
    /\ threads = [t \in Threads |-> Idle]

\* Whether a call with these flags gets past the checks of the flags.
FlagsPass(num_amps, norm_to_zenith, iau_order) ==
    num_amps \in {16, 32} /\ norm_to_zenith \in {0, 1} /\ iau_order \in {0, 1}

\* The calls on the CPU engine.  A call that is rejected for a flag does
\* not get to its other arguments: one choice of them stands for all.
CpuCalls ==
    \/ \E result \in {"ok", "bad_utf8", "error", "panic"} : new_fee_beam(result)
    \/ \E result \in {"ok", "error", "panic"} : new_fee_beam_from_env(result)
    \/ \E h \in CpuHandles, num_amps \in NumAmpsValues, norm_to_zenith \in FlagValues,
          latitude_rad \in LatitudeValues, iau_order \in FlagValues :
            IF FlagsPass(num_amps, norm_to_zenith, iau_order)
            THEN \E d \in 1..mem.num_azza, f \in 1..mem.num_freqs, t \in 1..mem.num_tiles,
                    result \in PanicOutcomes :
                     fee_calc_jones(h, d, f, t, num_amps, norm_to_zenith, latitude_rad,
                                    iau_order, result)
            ELSE fee_calc_jones(h, 1, 1, 1, num_amps, norm_to_zenith, latitude_rad,
                                iau_order, "ok")
    \/ \E h \in CpuHandles, num_amps \in NumAmpsValues, norm_to_zenith \in FlagValues,
          latitude_rad \in LatitudeValues, iau_order \in FlagValues :
            IF FlagsPass(num_amps, norm_to_zenith, iau_order)
            THEN \E f \in 1..mem.num_freqs, t \in 1..mem.num_tiles, result \in PanicOutcomes,
                    schedule \in Schedules(mem.num_azza), n_done \in 0..mem.num_azza :
                     fee_calc_jones_array(h, f, t, num_amps, norm_to_zenith, latitude_rad,
                                          iau_order, result, schedule, n_done)
            ELSE \E schedule \in Schedules(mem.num_azza) :
                     fee_calc_jones_array(h, 1, 1, num_amps, norm_to_zenith, latitude_rad,
                                          iau_order, "ok", schedule, mem.num_azza)
    \/ \E h \in CpuHandles : get_fee_beam_freqs(h)
    \/ \E h \in CpuHandles, freq \in FreqValues : fee_closest_freq(h, freq)
    \/ \E h \in CpuHandles : free_fee_beam(h)

\* The calls that build, use and free a GPU engine.
GpuCalls ==
    \/ \E h \in DOMAIN fee_beams, num_amps \in NumAmpsValues, norm_to_zenith \in FlagValues :
            \E result \in IF FlagsPass(num_amps, norm_to_zenith, 0) THEN PanicOutcomes ELSE {"ok"} :
                new_gpu_fee_beam(h, mem.num_freqs, mem.num_tiles, num_amps, norm_to_zenith,
                                 result)
    \/ \E g \in DOMAIN gpu_beams, latitude_rad \in LatitudeValues, iau_order \in FlagValues :
            \E result \in IF FlagsPass(16, 0, iau_order) THEN PanicOutcomes ELSE {"ok"} :
                fee_calc_jones_gpu(g, mem.num_azza, latitude_rad, iau_order, result)
    \/ \E g \in DOMAIN gpu_beams, latitude_rad \in LatitudeValues, iau_order \in FlagValues,
          num_azza \in DeviceNumAzzaValues :
            \E result \in IF FlagsPass(16, 0, iau_order) /\ num_azza >= 0
                          THEN DeviceOutcomes(latitude_rad) ELSE {"ok"} :
                fee_calc_jones_gpu_device(g, num_azza, latitude_rad, iau_order, result)
    \/ \E g \in DOMAIN gpu_beams, latitude_rad \in LatitudeValues, iau_order \in FlagValues :
            \E result \in IF FlagsPass(16, 0, iau_order) THEN PanicOutcomes ELSE {"ok"} :
                fee_calc_jones_gpu_device_inner(g, mem.num_azza, latitude_rad, iau_order,
                                                result)
    \/ \E fn \in AccessorNames, g \in DOMAIN gpu_beams : accessor(fn, g)
    \/ \E g \in DOMAIN gpu_beams : free_gpu_fee_beam(g)

Next == CpuCalls \/ GpuCalls

Spec == Init /\ [][Next]_vars

\* The caller's data of the de-duplication specification: every tile table
\* of at most MaxTiles rows and every frequency list of at most MaxFreqs
\* frequencies, the tables and lists of the tests, and a table of one tile
\* whose gains are all zero.
DedupTables ==
    SeqsUpTo({TileA, TileB, TileC}, MaxTiles) \cup {TestTiles, SharedTiles, NoAmpsTiles, <<TileZ>>}
DedupFreqs == SeqsUpTo({150000000, 250000000, 250000001}, MaxFreqs) \cup {TestFreqs}
DedupMems ==
    {Mem(freqs, tiles, 16) : freqs \in DedupFreqs, tiles \in DedupTables}
    \cup {Mem(<<250000000, 250000001>>, <<TileXY, TileXY0, TileXY>>, 32)}

\* A CPU engine exists; GPU engines are built from it.
InitDedup ==
    /\ mem \in DedupMems
    /\ fee_beams = [h \in CpuHandles |-> "live"]
    /\ gpu_beams = [g \in GpuHandles |-> NoBeam]
    /\ last_error = NoMsg
    /\ hook = DefaultHook
    /\ call = NoCall
    /\ process = "running"
    /\ threads = [t \in Threads |-> Idle]

\* Build a GPU engine, compute with it, free it.
NextDedup ==
    \/ \E h \in DOMAIN fee_beams, num_amps \in NumAmpsValues, norm_to_zenith \in FlagValues :
            \E result \in IF FlagsPass(num_amps, norm_to_zenith, 0) THEN Outcomes ELSE {"ok"} :
                new_gpu_fee_beam(h, mem.num_freqs, mem.num_tiles, num_amps, norm_to_zenith,
                                 result)
    \/ \E g \in DOMAIN gpu_beams, latitude_rad \in LatitudeValues, iau_order \in FlagValues :
            \E result \in IF FlagsPass(16, 0, iau_order) THEN Outcomes ELSE {"ok"} :
                fee_calc_jones_gpu(g, mem.num_azza, latitude_rad, iau_order, result)
    \/ \E g \in DOMAIN gpu_beams : free_gpu_fee_beam(g)

SpecDedup == InitDedup /\ [][NextDedup]_vars

\* Two threads each make one call of a creation function, their steps
\* interleaved in every way; the host may have set a panic hook before.
InitThreads ==
    /\ mem \in BoundaryMems
    /\ fee_beams = [h \in ThreadHandles |-> "none"]
    /\ gpu_beams = [g \in GpuHandles |-> NoBeam]
    /\ last_error = NoMsg
    /\ hook \in {DefaultHook, HostHook}
    /\ call = NoCall
    /\ process = "running"
    /\ threads = [t \in Threads |-> Idle]

NextThreads ==
    \/ \E t \in Threads, fn \in {"new_fee_beam", "new_fee_beam_from_env"} : thread_set_hook(t, fn)
    \/ \E t \in Threads, result \in {"ok", "bad_utf8", "error", "panic"} :
           thread_catch_unwind(t, result)
    \/ \E t \in Threads : thread_take_hook(t)
    \/ \E t \in Threads : thread_return(t)

SpecThreads == InitThreads /\ [][NextThreads]_vars

-----------------------------------------------------------------------------
(* Properties of the GPU engine's de-duplication, checked under SpecDedup. *)

\* The rows of the caller's tile table and the number of different rows.
DistinctTiles == {MemTile(t) : t \in 1..mem.num_tiles}
DistinctFreqs == Range(mem.freqs_hz)
SnappedFreqs == {find_closest_freq(mem.freqs_hz[i]) : i \in 1..mem.num_freqs}

\* A live engine whose caller holds this frequency list and this table of
\* 16-gain tiles.
BuiltFrom(g, freqs, tiles) ==
    /\ Live(g)
    /\ mem.num_amps = 16
    /\ mem.freqs_hz = freqs
    /\ mem.num_tiles = Len(tiles)
    /\ \A t \in 1..Len(tiles) : MemTile(t) = tiles[t]

\* C1: the number of unique tiles of a GPU engine is the number of distinct
\* rows (delays and gains together) of the tile table it was built from; a
\* row that differs from another only by a delay of 32 counts as its own.
C1_NumUniqueTiles ==
    \A g \in DOMAIN gpu_beams :
        Live(g) => get_num_unique_fee_tiles(g) = Cardinality(DistinctTiles)

\* An engine built from a table in which a row repeats and another row
\* differs from it only by a delay of 32.
C1_Witness ==
    \E g \in DOMAIN gpu_beams :
        /\ Live(g)
        /\ \E t, u, v \in 1..mem.num_tiles :
               /\ t # u /\ MemTile(t) = TileA /\ MemTile(u) = TileA
               /\ MemTile(v) = TileB
        /\ get_num_unique_fee_tiles(g) < mem.num_tiles
        /\ get_num_unique_fee_tiles(g) >= 2

\* C2: the tile map has one entry per input tile and the frequency map one
\* entry per input frequency; the entries of each are unique indices, every
\* unique index is the image of some input position, and there are no more
\* unique tiles (frequencies) than input tiles (frequencies).
C2_MapsTotalOnto ==
    \A g \in DOMAIN gpu_beams :
        Live(g) =>
            LET tm == get_fee_tile_map(g)
                fm == get_fee_freq_map(g)
                U == get_num_unique_fee_tiles(g)
                V == get_num_unique_fee_freqs(g)
            IN  /\ Len(tm) = mem.num_tiles
                /\ Len(fm) = mem.num_freqs
                /\ \A i \in 1..Len(tm) : tm[i] \in 0..(U - 1)
                /\ \A i \in 1..Len(fm) : fm[i] \in 0..(V - 1)
                /\ \A u \in 0..(U - 1) : \E i \in 1..Len(tm) : tm[i] = u
                /\ \A v \in 0..(V - 1) : \E i \in 1..Len(fm) : fm[i] = v
                /\ U <= mem.num_tiles
                /\ V <= mem.num_freqs

\* An engine with fewer unique tiles than tiles and fewer unique frequencies
\* than frequencies, and more than one of each.
C2_Witness ==
    \E g \in DOMAIN gpu_beams :
        /\ Live(g)
        /\ 1 < get_num_unique_fee_tiles(g)
        /\ get_num_unique_fee_tiles(g) < Len(get_fee_tile_map(g))
        /\ 1 < get_num_unique_fee_freqs(g)
        /\ get_num_unique_fee_freqs(g) < Len(get_fee_freq_map(g))

\* C3: two input tiles have the same unique tile index exactly when their
\* delays and their gains are equal element by element.
C3_SameIndexIffEqualTiles ==
    \A g \in DOMAIN gpu_beams :
        Live(g) =>
            \A i, j \in 1..mem.num_tiles :
                (get_fee_tile_map(g)[i] = get_fee_tile_map(g)[j]) <=> (MemTile(i) = MemTile(j))

\* An engine in which two equal rows share an index, two rows that differ
\* by one delay do not, and two rows that differ by one gain do not.
C3_Witness ==
    \E g \in DOMAIN gpu_beams :
        /\ Live(g)
        /\ \E i, j, k, l \in 1..mem.num_tiles :
               /\ i # j /\ MemTile(i) = TileA /\ MemTile(j) = TileA
               /\ MemTile(k) = TileB /\ MemTile(l) = TileC
               /\ get_fee_tile_map(g)[i] = get_fee_tile_map(g)[j]
               /\ get_fee_tile_map(g)[i] # get_fee_tile_map(g)[k]
               /\ get_fee_tile_map(g)[i] # get_fee_tile_map(g)[l]

\* C4 as stated: frequencies are compared as integers, so two input
\* frequencies share a unique frequency index exactly when they are the
\* same number of Hz, and 250000000 and 250000001 get different indices.
C4_ExactEquality ==
    \A g \in DOMAIN gpu_beams :
        Live(g) =>
            /\ \A i, j \in 1..mem.num_freqs :
                   (get_fee_freq_map(g)[i] = get_fee_freq_map(g)[j])
                       <=> (mem.freqs_hz[i] = mem.freqs_hz[j])
            /\ get_num_unique_fee_freqs(g) = Cardinality(DistinctFreqs)

\* C4, amended: frequencies are compared by the available frequency each
\* one selects in the coefficient store.  Two input frequencies share a
\* unique frequency index exactly when they select the same available
\* frequency, and the number of unique frequencies is the number of
\* available frequencies selected.
C4_SameIndexIffSameClosest ==
    \A g \in DOMAIN gpu_beams :
        Live(g) =>
            /\ Len(get_fee_freq_map(g)) = mem.num_freqs
            /\ \A i, j \in 1..mem.num_freqs :
                   (get_fee_freq_map(g)[i] = get_fee_freq_map(g)[j])
                       <=> (find_closest_freq(mem.freqs_hz[i]) = find_closest_freq(mem.freqs_hz[j]))
            /\ get_num_unique_fee_freqs(g) = Cardinality(SnappedFreqs)

\* An engine built from a list that holds 250000000 and 250000001, which
\* share an index, and a frequency that selects another available one.
C4_Witness ==
    \E g \in DOMAIN gpu_beams :
        /\ Live(g)
        /\ \E i, j, k \in 1..mem.num_freqs :
               /\ mem.freqs_hz[i] = 250000000
               /\ mem.freqs_hz[j] = 250000001
               /\ mem.freqs_hz[k] = 150000000
               /\ get_fee_freq_map(g)[i] = get_fee_freq_map(g)[j]
               /\ get_fee_freq_map(g)[i] # get_fee_freq_map(g)[k]

\* C5: an engine built from the frequency list 150000000, 200000000,
\* 250000000, 150000000, 200000000, 250000001 has 3 unique frequencies.
C5_TestFreqsThreeUnique ==
    \A g \in DOMAIN gpu_beams :
        (Live(g) /\ mem.freqs_hz = TestFreqs) => get_num_unique_fee_freqs(g) = 3

\* An engine built from that list.
C5_Witness ==
    \E g \in DOMAIN gpu_beams :
        /\ Live(g)
        /\ mem.freqs_hz = TestFreqs
        /\ Len(get_fee_freq_map(g)) = 6

\* Rows t and u of the caller's table differ in the delay of the first
\* dipole only, which is 32 in row u and 3 in row t.
DiffersByDelay32(t, u) ==
    /\ MemAmps(t) = MemAmps(u)
    /\ MemDelays(t)[1] = 3 /\ MemDelays(u)[1] = 32
    /\ \A k \in 2..16 : MemDelays(t)[k] = MemDelays(u)[k]

\* Rows t and u of the caller's table differ in the gain of the first
\* dipole only, which is 0 in row u and 1 in row t.
DiffersByGain0(t, u) ==
    /\ MemDelays(t) = MemDelays(u)
    /\ MemAmps(t)[1] = 1 /\ MemAmps(u)[1] = 0
    /\ \A k \in 2..mem.num_amps : MemAmps(t)[k] = MemAmps(u)[k]

\* C6 as stated: 4 tiles of which the first, third and fourth are the same
\* and the second differs in one delay only (32 for 3) make 3 unique tiles.
C6_SharedTilesThreeUnique ==
    \A g \in DOMAIN gpu_beams :
        ( /\ Live(g)
          /\ mem.num_tiles = 4
          /\ MemTile(1) = MemTile(3) /\ MemTile(1) = MemTile(4)
          /\ DiffersByDelay32(1, 2) )
        => get_num_unique_fee_tiles(g) = 3

\* C6, amended: 4 tiles of which the first and fourth are the same, the
\* second differs from them in one delay only (32 for 3) and the third
\* differs from them in one gain only (0 for 1) make 3 unique tiles.
C6_TestTilesThreeUnique ==
    \A g \in DOMAIN gpu_beams :
        ( /\ Live(g)
          /\ mem.num_tiles = 4
          /\ MemTile(1) = MemTile(4)
          /\ DiffersByDelay32(1, 2)
          /\ DiffersByGain0(1, 3) )
        => get_num_unique_fee_tiles(g) = 3

\* An engine built from the tile table of
\* test_cuda_calc_jones_deduplication.
C6_Witness ==
    \E g \in DOMAIN gpu_beams :
        /\ BuiltFrom(g, mem.freqs_hz, TestTiles)
        /\ MemTile(1) = MemTile(4)
        /\ DiffersByDelay32(1, 2)
        /\ DiffersByGain0(1, 3)

\* C7: the number of coefficient blocks of an engine is its number of
\* unique tiles times its number of unique frequencies, however often a
\* tile or a frequency is repeated in the input.
C7_NumCoeffs ==
    \A g \in DOMAIN gpu_beams :
        Live(g) =>
            gpu_beams[g].beam.num_coeffs
                = get_num_unique_fee_tiles(g) * get_num_unique_fee_freqs(g)

\* The engine of test_cuda_calc_jones_deduplication: 4 tiles and 6
\* frequencies, 9 coefficient blocks.
C7_Witness ==
    \E g \in DOMAIN gpu_beams :
        /\ BuiltFrom(g, TestFreqs, TestTiles)
        /\ gpu_beams[g].beam.num_coeffs = 9
        /\ mem.num_tiles * mem.num_freqs = 24

\* C8: after fee_calc_jones_gpu has filled the caller's buffer, for every
\* input tile t, input frequency f and direction d the element
\* [tile_map[t], freq_map[f], d] of the buffer is what the CPU engine
\* computes for tile t's delays and gains, frequency f and direction d with
\* the same normalisation, latitude and IAU-order options.
C8_GpuMatchesCpu ==
    (process = "running" /\ call.fn = "fee_calc_jones_gpu" /\ call.ret = 0) =>
        LET g == call.handle
            n == mem.num_azza
        IN  /\ Live(g)
            /\ Len(call.out) = get_num_unique_fee_tiles(g) * get_num_unique_fee_freqs(g) * n
            /\ \A t \in 1..mem.num_tiles, f \in 1..mem.num_freqs, d \in 1..n :
                   call.out[Index3(get_num_unique_fee_freqs(g), n,
                                   get_fee_tile_map(g)[t], get_fee_freq_map(g)[f], d - 1)]
                     = calc_jones_pair(mem.az_rad[d], mem.za_rad[d], mem.freqs_hz[f],
                                       MemDelays(t), MemAmps(t),
                                       gpu_beams[g].beam.norm_to_zenith,
                                       call.latitude_rad, call.flags.iau_order = 1)

\* A computation with a normalised engine that has repeated tiles and
\* frequencies, with the parallactic-angle correction and in IAU order.
C8_Witness ==
    /\ process = "running"
    /\ call.fn = "fee_calc_jones_gpu"
    /\ call.ret = 0
    /\ BuiltFrom(call.handle, TestFreqs, TestTiles)
    /\ gpu_beams[call.handle].beam.norm_to_zenith
    /\ call.latitude_rad = MWA_LAT_RAD
    /\ call.flags.iau_order = 1
    /\ call.out # NoOut

-----------------------------------------------------------------------------
(* Properties of the boundary's validation of flags, checked under Spec.  *)

\* The flags of a call, of those it takes, that are outside their valid
\* values.
InvalidFlags(flags) ==
    {name \in DOMAIN flags :
        \/ name = "num_amps" /\ flags[name] \notin {16, 32}
        \/ name \in {"norm_to_zenith", "iau_order"} /\ flags[name] \notin {0, 1}}

EventsOf(c, op) == {i \in 1..Len(c.trace) : c.trace[i].op = op}

\* C9: a call of a boundary function with num_amps other than 16 or 32, or
\* with norm_to_zenith or iau_order other than 0 or 1, returns a non-zero
\* status and leaves an error message as the last error; the engine is not
\* called, no engine is made, and neither the output buffer nor the output
\* handle is written.  In particular 2 is not taken for true.
C9_InvalidFlagsRejected ==
    [][ InvalidFlags(call'.flags) # {} =>
            /\ call'.ret # 0
            /\ call'.err # NoMsg
            /\ last_error' = call'.err
            /\ EventsOf(call', "engine") = {}
            /\ EventsOf(call', "write") = {}
            /\ call'.out = NoOut
            /\ call'.out_handle = "none"
            /\ UNCHANGED <<mem, fee_beams, gpu_beams>> ]_vars

\* A call of new_gpu_fee_beam on a live CPU engine with a valid num_amps and
\* norm_to_zenith = 2 has been turned away.
C9_Witness ==
    /\ call.fn = "new_gpu_fee_beam"
    /\ fee_beams[call.handle] = "live"
    /\ call.flags.num_amps \in {16, 32}
    /\ call.flags.norm_to_zenith = 2
    /\ call.ret = 1
    /\ last_error = BadNorm

\* C10 as stated: every check of a flag comes before every read through a
\* pointer of the caller's, so a call that is turned away for a flag has
\* read through none of them.
C10_ValidationBeforeDeref ==
    /\ \A i \in EventsOf(call, "deref"), j \in EventsOf(call, "check") : j < i
    /\ call.err \in {BadNumAmps, BadNorm, BadIau} => EventsOf(call, "deref") = {}

-----------------------------------------------------------------------------
(* Properties of the boundary's status codes, panic hook and handles,     *)
(* checked under Spec.                                                    *)

\* How a call ended: with success, with a validation error (a flag or the
\* path turned away), with an internal failure (the engine returned Err),
\* or with an intercepted fatal failure (a panic caught by catch_unwind).
CallClass(c) ==
    IF c.err = NoMsg THEN "success"
    ELSE IF c.err \in {BadNumAmps, BadNorm, BadIau, BadUtf8} THEN "validation"
    ELSE IF c.err = EngineError THEN "internal"
    ELSE "fatal"

\* C11 as stated: a call returns 0 exactly when it succeeds, and two calls
\* that end in different classes (success, validation error, internal
\* failure, intercepted fatal failure) return different status codes.
C11_DistinctStatusCodes ==
    [][ process' = "running" =>
            /\ (call'.ret = 0) <=> (CallClass(call') = "success")
            /\ CallClass(call) # CallClass(call') => call.ret # call'.ret ]_vars

\* C12 as stated: in a call that enters the engine the panic hook is set
\* before the engine is entered and taken after it is left, and no panic
\* gets past the call: the process keeps running.
C12_HookAroundEngine ==
    /\ \A i \in EventsOf(call, "engine") :
           /\ \E j \in 1..(i - 1) : call.trace[j] = [op |-> "hook", what |-> "set"]
           /\ \E k \in (i + 1)..Len(call.trace) : call.trace[k] = [op |-> "hook", what |-> "take"]
    /\ EventsOf(call, "panic") = {}
    /\ process = "running"

\* C11, amended: a call returns 0 exactly when it succeeds.  An intercepted
\* fatal failure returns -1 and nothing else does; a flag that is turned
\* away and an internal failure both return 1; a path that is not UTF-8
\* returns 2.  Every failure leaves its message as the last error.
C11_StatusCodes ==
    process = "running" =>
        /\ (call.ret = 0) <=> (CallClass(call) = "success")
        /\ (call.ret = -1) <=> (CallClass(call) = "fatal")
        /\ CallClass(call) = "internal" => call.ret = 1
        /\ CallClass(call) = "validation" => call.ret = (IF call.err = BadUtf8 THEN 2 ELSE 1)
        /\ call.ret # 0 => last_error = call.err

\* fee_calc_jones has returned 1 for an internal failure, the status it
\* also returns for a flag that is turned away.
C11_Witness ==
    /\ process = "running"
    /\ call.fn = "fee_calc_jones"
    /\ call.err = EngineError
    /\ call.ret = 1
    /\ InvalidFlags(call.flags) = {}

\* The functions that make an engine, and the handles a step makes live.
CreationFunctions == {"new_fee_beam", "new_fee_beam_from_env", "new_gpu_fee_beam"}
NewlyLive ==
    {h \in DOMAIN fee_beams : fee_beams[h] # "live" /\ fee_beams'[h] = "live"}
    \cup {g \in DOMAIN gpu_beams : gpu_beams[g].status # "live" /\ gpu_beams'[g].status = "live"}
HandleStatus(h) == IF h \in DOMAIN fee_beams THEN fee_beams[h] ELSE gpu_beams[h].status

\* C13: a creation function that returns 0 has written one handle, the
\* handle of an engine that did not exist before the call and is live after
\* it, and has made no other engine; one that returns another status has
\* written no handle and made no engine.
C13_OneHandlePerCreation ==
    [][ (call'.fn \in CreationFunctions /\ process' = "running") =>
            IF call'.ret = 0
            THEN /\ call'.out_handle \in DOMAIN fee_beams \cup DOMAIN gpu_beams
                 /\ HandleStatus(call'.out_handle) = "none"
                 /\ NewlyLive = {call'.out_handle}
                 /\ Cardinality(EventsOf(call', "write")) = 1
                 /\ \A h \in DOMAIN fee_beams \ {call'.out_handle} : fee_beams'[h] = fee_beams[h]
                 /\ \A g \in DOMAIN gpu_beams \ {call'.out_handle} : gpu_beams'[g] = gpu_beams[g]
            ELSE /\ call'.out_handle = "none"
                 /\ EventsOf(call', "write") = {}
                 /\ UNCHANGED <<fee_beams, gpu_beams>> ]_vars

\* new_gpu_fee_beam has returned 0 and handed out a live GPU engine, next
\* to the CPU engine it was made from.
C13_Witness ==
    /\ call.fn = "new_gpu_fee_beam"
    /\ process = "running"
    /\ call.ret = 0
    /\ call.out_handle \in DOMAIN gpu_beams
    /\ Live(call.out_handle)
    /\ fee_beams[call.handle] = "live"

\* The functions that destroy an engine, the handles a step frees, and
\* whether the engine behind the handle of the call made by a step was
\* live when the call was made.
DestroyFunctions == {"free_fee_beam", "free_gpu_fee_beam"}
NewlyFreed ==
    {h \in DOMAIN fee_beams : fee_beams[h] # "freed" /\ fee_beams'[h] = "freed"}
    \cup {g \in DOMAIN gpu_beams : gpu_beams[g].status # "freed" /\ gpu_beams'[g].status = "freed"}
GivenLiveHandle ==
    call'.handle \in DOMAIN fee_beams \cup DOMAIN gpu_beams => HandleStatus(call'.handle) = "live"

\* C14: a call made with no handle or with the handle of an engine that
\* has not been destroyed accesses no freed engine; if it is a destroy call
\* it frees the engine of its handle, which was live until then, and no
\* other engine; if it is any other call it frees no engine.  A freed
\* engine stays freed, so no engine is freed twice.
C14_CorrectCallersSafe ==
    [][ /\ GivenLiveHandle =>
               /\ EventsOf(call', "use_after_free") = {}
               /\ NewlyFreed = (IF call'.fn \in DestroyFunctions THEN {call'.handle} ELSE {})
        /\ \A h \in DOMAIN fee_beams : fee_beams[h] = "freed" => fee_beams'[h] = "freed"
        /\ \A g \in DOMAIN gpu_beams : gpu_beams[g].status = "freed" => gpu_beams'[g].status = "freed"
      ]_vars

\* free_gpu_fee_beam and free_fee_beam have both been called, each once,
\* in that order: both engines are freed and the process runs on.
C14_Witness ==
    /\ process = "running"
    /\ call.fn = "free_fee_beam"
    /\ call.ret = 0
    /\ EventsOf(call, "use_after_free") = {}
    /\ fee_beams[call.handle] = "freed"
    /\ \E g \in DOMAIN gpu_beams : gpu_beams[g].status = "freed"

\* C15 as stated: a compute or accessor call given the handle of a GPU
\* engine that free_gpu_fee_beam has freed does not access the freed
\* engine.
C15_NoUseAfterFree ==
    (call.handle \in DOMAIN gpu_beams /\ call.fn \notin DestroyFunctions) =>
        EventsOf(call, "use_after_free") = {}

\* The compute and accessor functions of a GPU engine.
GpuComputeFunctions ==
    {"fee_calc_jones_gpu", "fee_calc_jones_gpu_device", "fee_calc_jones_gpu_device_inner"}
GpuAccessorFunctions ==
    {"get_fee_tile_map", "get_fee_device_tile_map", "get_fee_freq_map",
     "get_fee_device_freq_map", "get_num_unique_fee_tiles", "get_num_unique_fee_freqs"}

\* C16: a step that leaves a GPU engine live leaves its number of unique
\* tiles and of unique frequencies, its tile map, its frequency map and
\* its normalisation setting as they were, so they keep the values they
\* had when new_gpu_fee_beam returned; and a compute or accessor call
\* changes no GPU engine at all.
C16_GpuEngineImmutable ==
    [][ /\ \A g \in DOMAIN gpu_beams :
               (Live(g) /\ gpu_beams'[g].status = "live") =>
                   /\ gpu_beams'[g].beam.num_unique_tiles = gpu_beams[g].beam.num_unique_tiles
                   /\ gpu_beams'[g].beam.num_unique_freqs = gpu_beams[g].beam.num_unique_freqs
                   /\ gpu_beams'[g].beam.tile_map = gpu_beams[g].beam.tile_map
                   /\ gpu_beams'[g].beam.freq_map = gpu_beams[g].beam.freq_map
                   /\ gpu_beams'[g].beam.norm_to_zenith = gpu_beams[g].beam.norm_to_zenith
        /\ call'.fn \in GpuComputeFunctions \cup GpuAccessorFunctions => UNCHANGED gpu_beams
      ]_vars

\* A compute call on a live GPU engine has returned 0 with results for a
\* non-empty direction list, and an accessor still reports the engine's
\* tile map.
C16_Witness ==
    /\ process = "running"
    /\ call.fn = "fee_calc_jones_gpu"
    /\ call.ret = 0
    /\ Len(call.out) > 0
    /\ Live(call.handle)
    /\ get_fee_tile_map(call.handle) = gpu_beams[call.handle].beam.tile_map

-----------------------------------------------------------------------------
(* Properties of the batch computations, checked under Spec.              *)

BatchFunctions == {"fee_calc_jones_array", "fee_calc_jones_gpu"}

\* Every slot of the output of a fee_calc_jones_array call holds the
\* response in the direction of its index, of one of the caller's tiles at
\* one of the caller's frequencies, with the options of the call.
ArraySlotsHold(c) ==
    /\ Len(c.out) = mem.num_azza
    /\ \E f \in 1..mem.num_freqs, t \in 1..mem.num_tiles :
           \A i \in 1..mem.num_azza :
               c.out[i] = calc_jones_pair(mem.az_rad[i], mem.za_rad[i], mem.freqs_hz[f],
                                          MemDelays(t), SubSeq(MemAmps(t), 1, c.flags.num_amps),
                                          c.flags.norm_to_zenith = 1, c.latitude_rad,
                                          c.flags.iau_order = 1)

\* Every slot [unique tile, unique frequency, direction] of the output of a
\* fee_calc_jones_gpu call holds the response of the coefficient block of
\* that tile and frequency in that direction, with the options of the call.
GpuSlotsHold(c) ==
    LET beam == gpu_beams[c.handle].beam
        n == mem.num_azza
    IN  /\ Live(c.handle)
        /\ Len(c.out) = beam.num_unique_tiles * beam.num_unique_freqs * n
        /\ \A i0 \in 0..(beam.num_unique_tiles - 1), i1 \in 0..(beam.num_unique_freqs - 1),
              d \in 1..n :
               c.out[Index3(beam.num_unique_freqs, n, i0, i1, d - 1)]
                 = post_process(calc_jones_direct(beam.d_coeffs[i0 * beam.num_unique_freqs + i1 + 1],
                                                  mem.az_rad[d], mem.za_rad[d]),
                                beam.norm_to_zenith, c.latitude_rad, c.flags.iau_order = 1)

BatchComplete(c) ==
    IF c.fn = "fee_calc_jones_array" THEN ArraySlotsHold(c) ELSE GpuSlotsHold(c)

\* No slot of the output of call c holds a result: the call wrote nothing
\* to the caller's buffer, or what it wrote has been taken back.
Discarded(c) == \A i \in 1..Len(c.out) : c.out[i] = Stale

\* Every slot of the output of a fee_calc_jones_array call is as the caller
\* left it or holds the response in the direction of its index.
ArraySlotsHoldOrStale(c) ==
    \E f \in 1..mem.num_freqs, t \in 1..mem.num_tiles :
        \A i \in 1..Len(c.out) :
            \/ c.out[i] = Stale
            \/ c.out[i] = calc_jones_pair(mem.az_rad[i], mem.za_rad[i], mem.freqs_hz[f],
                                          MemDelays(t), SubSeq(MemAmps(t), 1, c.flags.num_amps),
                                          c.flags.norm_to_zenith = 1, c.latitude_rad,
                                          c.flags.iau_order = 1)

C18_SlotPerDirection ==
    (process = "running" /\ call.fn = "fee_calc_jones_array" /\ call.ret = 0) =>
        /\ Len(call.out) = mem.num_azza
        /\ \A i \in 1..mem.num_azza :
               /\ Cardinality({k \in EventsOf(call, "slot") : call.trace[k].what = i}) = 1
               /\ call.out[i] # ZeroJones =>
                      /\ call.out[i].src.az = mem.az_rad[i]
                      /\ call.out[i].src.za = mem.za_rad[i]
        /\ ArraySlotsHold(call)

\* fee_calc_jones_array has returned 0 after the task of the second
\* direction finished before the task of the first.
C18_Witness ==
    /\ process = "running"
    /\ call.fn = "fee_calc_jones_array"
    /\ call.ret = 0
    /\ \E j, k \in EventsOf(call, "slot") :
           j < k /\ call.trace[j].what = 2 /\ call.trace[k].what = 1
    /\ call.out[1] # call.out[2]

\* C19: when fee_calc_jones_gpu is called without IAU order and then again
\* with it, on the same engine, for the same directions and with the same
\* latitude, every matrix of the first result has its entries in their
\* places, and entry k of every matrix of the second result is entry 3 - k
\* of the matrix in the same slot of the first (0 with 3, 1 with 2), as
\* normalised and rotated for the latitude as that one is; exchanging the
\* entries of the second result once more gives the first result.
C19_IauOrderPermutes ==
    [][ ( /\ process = "running" /\ process' = "running"
          /\ call.fn = "fee_calc_jones_gpu" /\ call'.fn = "fee_calc_jones_gpu"
          /\ call.ret = 0 /\ call'.ret = 0
          /\ call.handle = call'.handle
          /\ call.latitude_rad = call'.latitude_rad
          /\ call.flags.iau_order = 0 /\ call'.flags.iau_order = 1 ) =>
            /\ Len(call'.out) = Len(call.out)
            /\ \A x \in 1..Len(call.out) :
                   /\ \A k \in 1..4 : call.out[x].e[k] \in {0, k}
                   /\ \A k \in 1..4 : Entry(call'.out[x], k) = Entry(call.out[x], 5 - k)
                   /\ apply_iau_order(call'.out[x]) = call.out[x]
                   /\ apply_iau_order(apply_iau_order(call.out[x])) = call.out[x]
      ]_vars

\* fee_calc_jones_gpu has returned a result in IAU order for a normalised
\* engine and the MWA's latitude, with a matrix none of whose entries is
\* zero: its four entries are in the order 3, 2, 1, 0.
C19_Witness ==
    /\ process = "running"
    /\ call.fn = "fee_calc_jones_gpu"
    /\ call.ret = 0
    /\ call.flags.iau_order = 1
    /\ call.latitude_rad = MWA_LAT_RAD
    /\ gpu_beams[call.handle].beam.norm_to_zenith
    /\ \E x \in 1..Len(call.out) :
           /\ call.out[x].e = <<4, 3, 2, 1>>
           /\ call.out[x].src.norm
           /\ call.out[x].src.lat = MWA_LAT_RAD

-----------------------------------------------------------------------------
(* Properties of the computed matrices, checked under SpecDedup.          *)

\* The matrix that a fee_calc_jones_gpu call has left in the output for
\* the caller's tile t, the caller's frequency f and direction d.
SlotOf(c, t, f, d) ==
    c.out[Index3(get_num_unique_fee_freqs(c.handle), mem.num_azza,
                 get_fee_tile_map(c.handle)[t], get_fee_freq_map(c.handle)[f], d - 1)]

WithoutAndWith(a, b) ==
    /\ a.fn = "fee_calc_jones_gpu" /\ b.fn = "fee_calc_jones_gpu"
    /\ a.ret = 0 /\ b.ret = 0
    /\ a.handle = b.handle
    /\ a.flags = b.flags
    /\ a.latitude_rad = NullPtr /\ b.latitude_rad # NullPtr

\* Some entry of the result differs between the two calls.
SomeEntryDiffers(a, b) ==
    \E x \in 1..Len(a.out), k \in 1..4 : Entry(a.out[x], k) # Entry(b.out[x], k)

\* C22 as stated: the result with a latitude differs in at least one
\* entry from the result without it, whatever the engine was built from.
C22_LatitudeChangesResult ==
    [][ (process = "running" /\ process' = "running") =>
            /\ WithoutAndWith(call, call') => SomeEntryDiffers(call, call')
            /\ WithoutAndWith(call', call) => SomeEntryDiffers(call', call) ]_vars

\* The result without a latitude is not rotated: every matrix is the
\* response of its coefficient block in its direction, normalised if the
\* engine normalises and reordered if IAU order is asked for.
NotRotated(a) ==
    LET beam == gpu_beams[a.handle].beam
        n == mem.num_azza
    IN  \A i \in 0..(beam.num_coeffs - 1), d \in 1..n :
            LET direct == calc_jones_direct(beam.d_coeffs[i + 1], mem.az_rad[d], mem.za_rad[d])
                normed == IF beam.norm_to_zenith THEN apply_norm(direct) ELSE direct
            IN  a.out[i * n + d] =
                    IF a.flags.iau_order = 1 THEN apply_iau_order(normed) ELSE normed

\* What the latitude changes: nothing in a matrix that is all zero, and at
\* least one entry of the result if it has a matrix that is not all zero.
LatitudeChanges(a, b) ==
    /\ Len(a.out) = Len(b.out)
    /\ NotRotated(a)
    /\ \A x \in 1..Len(a.out) : a.out[x] = ZeroJones <=> b.out[x] = ZeroJones
    /\ (\E x \in 1..Len(a.out) : a.out[x] # ZeroJones) => SomeEntryDiffers(a, b)

\* C22, amended: a null latitude pointer skips the parallactic-angle
\* correction; when the result without a latitude has a matrix that is not
\* all zero (the engine has a tile with a gain that is not zero and at
\* least one frequency), the result with a latitude differs from it in at
\* least one entry, for directions away from zenith and all else equal.
\* The matrices of a tile whose gains are all zero are all zero either way.
C22_LatitudeChangesNonZero ==
    [][ (process = "running" /\ process' = "running") =>
            /\ WithoutAndWith(call, call') => LatitudeChanges(call, call')
            /\ WithoutAndWith(call', call) => LatitudeChanges(call', call) ]_vars

\* fee_calc_jones_gpu has returned a result rotated for the MWA's
\* latitude, with a matrix that is not all zero, from a normalising engine.
C22_Witness ==
    /\ process = "running"
    /\ call.fn = "fee_calc_jones_gpu"
    /\ call.ret = 0
    /\ call.latitude_rad = MWA_LAT_RAD
    /\ call.flags.iau_order = 0
    /\ gpu_beams[call.handle].beam.norm_to_zenith
    /\ \E x \in 1..Len(call.out) :
           /\ call.out[x] # ZeroJones
           /\ call.out[x].src.lat = MWA_LAT_RAD

-----------------------------------------------------------------------------
(* Properties of the status codes, the last error and the panic hook,     *)
(* checked under Spec.                                                    *)

\* C23: new_fee_beam returns 0 when it has made the engine, 2 when the
\* path is not UTF-8 (the engine is then not entered), 1 when the engine
\* reports that loading failed and -1 when the engine panics; when it
\* returns 2, 1 or -1 the last error is the message of that failure.
C23_NewFeeBeamStatus ==
    [][ (process' = "running" /\ call'.fn = "new_fee_beam") =>
            /\ call'.ret \in {0, 1, 2, -1}
            /\ call'.ret = 0 <=> (call'.out_handle \in NewlyLive /\ call'.err = NoMsg)
            /\ call'.ret = 2 <=> call'.err = BadUtf8
            /\ call'.ret = 2 => EventsOf(call', "engine") = {}
            /\ call'.ret = 1 <=> call'.err = EngineError
            /\ call'.ret = -1 <=> call'.err = PanicMessage
            /\ call'.ret # 0 => (last_error' = call'.err /\ NewlyLive = {})
            /\ call'.ret = 0 => last_error' = last_error ]_vars

\* new_fee_beam has returned -1 after a panic inside the engine, and the
\* last error is the panic's message.
C23_Witness ==
    /\ process = "running"
    /\ call.fn = "new_fee_beam"
    /\ call.ret = -1
    /\ last_error = PanicMessage
    /\ EventsOf(call, "engine") # {}

\* The boundary functions that return a status code.
StatusFunctions ==
    CreationFunctions \cup GpuComputeFunctions \cup {"fee_calc_jones", "fee_calc_jones_array"}

\* C24: a call of a function that returns a status code, when it returns
\* a status other than 0, has stored its message as the last error, and
\* when it returns 0 has left the last error as it was.
C24_LastErrorFollowsStatus ==
    [][ (process' = "running" /\ call'.fn \in StatusFunctions) =>
            /\ call'.ret # 0 => (call'.err # NoMsg /\ last_error' = call'.err)
            /\ call'.ret = 0 => (call'.err = NoMsg /\ last_error' = last_error) ]_vars

\* fee_calc_jones_gpu_device has returned 0 after an earlier call failed:
\* the last error is still the message of the earlier failure.
C24_Witness ==
    /\ process = "running"
    /\ call.fn = "fee_calc_jones_gpu_device"
    /\ call.ret = 0
    /\ call.err = NoMsg
    /\ last_error \in {BadNumAmps, BadNorm, BadIau, BadUtf8, EngineError, PanicMessage}

\* C25: when new_fee_beam or new_fee_beam_from_env has returned, whether
\* with an engine, an error or after a panic, the hook it set is no longer
\* the process's panic hook: the hook is the runtime default, also when the
\* host had set a hook of its own before the call.  The call set its hook
\* first and took it last, before writing the handle.
C25_HookTakenOnReturn ==
    [][ (process' = "running" /\ call'.fn \in {"new_fee_beam", "new_fee_beam_from_env"}) =>
            /\ hook' = DefaultHook
            /\ hook' # PanicHook
            /\ hook = HostHook => hook' # HostHook
            /\ call'.trace[1] = [op |-> "hook", what |-> "set"]
            /\ \E i \in EventsOf(call', "hook") :
                   /\ call'.trace[i].what = "take"
                   /\ \A j \in (i + 1)..Len(call'.trace) : call'.trace[j].op = "write" ]_vars

\* new_fee_beam_from_env has returned 1 and the hook is the runtime
\* default.
C25_Witness ==
    /\ process = "running"
    /\ call.fn = "new_fee_beam_from_env"
    /\ call.ret = 1
    /\ EventsOf(call, "hook") # {}
    /\ hook = DefaultHook

-----------------------------------------------------------------------------
(* The panic hook under concurrent creation calls, checked under          *)
(* SpecThreads.                                                           *)

\* A creation call of thread t has returned -1 for a panic whose message
\* was not stored as the last error.
UncapturedPanic(t) ==
    /\ threads[t].pc = "returned"
    /\ threads[t].ret = -1
    /\ ~threads[t].captured

\* C26: a creation call returns -1 without the message of its panic
\* having been stored as the last error only if it overlapped a creation
\* call of another thread; a call that overlapped no other call and
\* returns a status other than 0 has stored its message.
C26_UncapturedOnlyWhenConcurrent ==
    \A t \in Threads :
        /\ UncapturedPanic(t) => threads[t].overlapped
        /\ (threads[t].pc = "returned" /\ ~threads[t].overlapped /\ threads[t].ret # 0) =>
               threads[t].captured

\* While one thread was inside its call another took the panic hook; the
\* first then panicked and has returned -1, and the panic's message is not
\* the last error.
C26_Witness ==
    \E t \in Threads, u \in Threads :
        /\ t # u
        /\ UncapturedPanic(t)
        /\ threads[t].overlapped
        /\ threads[u].pc \in {"taken", "returned"}
        /\ last_error # PanicMessage
        /\ call.ret = -1 /\ call.err = NoMsg

-----------------------------------------------------------------------------
(* The device-resident computations, checked under Spec.                  *)

DeviceFunctions == {"fee_calc_jones_gpu_device", "fee_calc_jones_gpu_device_inner"}

\* Two calls made one right after the other, a of fee_calc_jones_gpu and b
\* of one of the device-resident functions, on the same engine with the
\* same latitude and IAU-order flag (the directions are the caller's).
HostAndDevice(a, b) ==
    /\ a.fn = "fee_calc_jones_gpu" /\ b.fn \in DeviceFunctions
    /\ a.handle = b.handle
    /\ a.latitude_rad = b.latitude_rad
    /\ a.flags = b.flags

\* The two calls return the same status when the engine does the same for
\* both, and when both return 0 the tensor left on the device is the one
\* written to the host buffer, indexed [unique tile, unique frequency,
\* direction].
SameSemantics(a, b) ==
    /\ CallClass(a) = CallClass(b) => a.ret = b.ret
    /\ InvalidFlags(a.flags) # {} => (a.ret = 1 /\ b.ret = 1)
    /\ (a.ret = 0 /\ b.ret = 0) =>
           /\ b.out = a.out
           /\ GpuSlotsHold(a)
           /\ GpuSlotsHold(b)

\* C27 as stated: fee_calc_jones_gpu_device and
\* fee_calc_jones_gpu_device_inner, called for the engine, directions,
\* latitude and IAU-order flag of a fee_calc_jones_gpu call, leave on the
\* device the tensor that fee_calc_jones_gpu writes to the host, with the
\* same indexing, and return the same status.
C27_DeviceMatchesHost ==
    [][ (process = "running" /\ process' = "running") =>
            /\ HostAndDevice(call, call') => SameSemantics(call, call')
            /\ HostAndDevice(call', call) => SameSemantics(call', call) ]_vars

\* C28 as stated: a negative direction count given to
\* fee_calc_jones_gpu_device is turned away by a check before the
\* direction arrays are read, so it never becomes the length of a slice
\* over them; and in every call each array copied to the device has as many
\* elements as the direction count handed to the device computation.
C28_NegativeCountRejected ==
    call.fn = "fee_calc_jones_gpu_device" =>
        /\ \A i \in EventsOf(call, "oversized_slice") : call.trace[i].what >= 0
        /\ \A i \in EventsOf(call, "copy_to_device"), j \in EventsOf(call, "device_count") :
               call.trace[i].what[1] \in {"az", "za"} =>
                   call.trace[i].what[2] = call.trace[j].what

-----------------------------------------------------------------------------
(* The order of the unique indices, checked under SpecDedup.              *)

\* The values the two scans compare, in the caller's order: the rows of the
\* tile table, and the available frequency each frequency selects.
ScannedTiles == [t \in 1..mem.num_tiles |-> MemTile(t)]
ScannedFreqs == [f \in 1..mem.num_freqs |-> find_closest_freq(mem.freqs_hz[f])]

\* The values met before position i of a scan, and the largest of the map
\* values before position i (-1 when there is none).
MetBefore(values, i) == {values[j] : j \in 1..(i - 1)}
LargestBefore(map, i) ==
    IF i = 1 THEN -1
    ELSE CHOOSE m \in {map[j] : j \in 1..(i - 1)} : \A j \in 1..(i - 1) : map[j] <= m

\* The map gives the indices 0, 1, 2, ... to the values in the order in
\* which each is met for the first time, and a repeated value gets the
\* index given at its first occurrence.
FirstOccurrenceOrder(values, map) ==
    /\ Len(map) = Len(values)
    /\ Len(map) > 0 => map[1] = 0
    /\ \A i \in 1..Len(map) :
           /\ map[i] >= 0
           /\ map[i] <= LargestBefore(map, i) + 1
           /\ values[i] \notin MetBefore(values, i) =>
                  map[i] = Cardinality(MetBefore(values, i))
           /\ \A j \in 1..(i - 1) : values[j] = values[i] => map[i] = map[j]

\* C29: in the tile map and in the frequency map of a GPU engine the k-th
\* distinct value met in the caller's order has unique index k, counted
\* from 0: the first position maps to 0, and no map value is more than one
\* above the largest map value before it.
C29_FirstOccurrenceOrder ==
    \A g \in DOMAIN gpu_beams :
        Live(g) =>
            /\ FirstOccurrenceOrder(ScannedTiles, get_fee_tile_map(g))
            /\ FirstOccurrenceOrder(ScannedFreqs, get_fee_freq_map(g))

\* An engine built from the table and the frequencies of the deduplication
\* test: the third distinct tile is met at the third row and the first tile
\* again at the fourth, and the first frequency is met again after three
\* distinct ones.
C29_Witness ==
    \E g \in DOMAIN gpu_beams :
        /\ BuiltFrom(g, TestFreqs, TestTiles)
        /\ get_fee_tile_map(g) = <<0, 1, 2, 0>>
        /\ get_fee_freq_map(g) = <<0, 1, 2, 0, 1, 2>>

====
